---- MODULE Spec2Model ----
(***************************************************************************)
(* IndentBot: the edit scheduling queue (pagequeue.PageQueue), the poller  *)
(* loop (pagequeue.continuous_page_gen), the control plane                 *)
(* (pagequeue.check_pause_or_resume) and the run loop (run.run,            *)
(* run.mainloop, run.fix_page).                                            *)
(*                                                                         *)
(* Time is counted in whole seconds of server time (sec = 1).  The remote  *)
(* wiki is the environment: it edits pages, answers re-fetches, offers     *)
(* control-page revisions and accepts or rejects saves.                    *)
(*                                                                         *)
(* run() calls mainloop with keyword arguments although mainloop takes the *)
(* single parameter args; the model follows the body of mainloop.  An      *)
(* exception raised anywhere inside the try block of run() (this           *)
(* TypeError included) is the action RunAbort.                             *)
(***************************************************************************)
EXTENDS Integers, Sequences, FiniteSets, TLC

\* ---------------------------------------------------------------- bounds
MaxTime == 4        \* the server clock stops ticking here
MaxRevs == 2        \* control-page revisions seen by one check_pause_or_resume
Limit == 2          \* args.total, the maximum number of edits (>= 1)
MaxPrio == 1        \* QueueSpec: the latest edit time
MaxCount == 3       \* QueueSpec: add_page is not called past this sequence number
Delay == 2          \* args.delay, in seconds
Chunk == 1          \* args.chunk, in seconds
MaxDepth == 3       \* the text engine: a line has at most this many indent characters
MaxLines == 3       \* the text engine: a text has at most this many lines
MaxLen == 5         \* line_partition: a text has at most this many characters

Titles == {"A", "B", "C"}
Watched == {"A", "B"}       \* the pages that are edited during the run
LongAgo == 0 - (Delay + Chunk + 1)

REMOVED == "<removed-task>"
MAINTAINERS == {"IndentBot", "Notsniwiast"}

NoPage == [title |-> "", editTime |-> LongAgo]
NoRev == [user |-> "", groups |-> {}, cmt |-> << >>]

UserNames == {"Notsniwiast", "Example"}
Groups == {"sysop", "autoconfirmed"}
\* the revisions of the control page: the author, the author's groups and
\* the edit comment, a sequence of words
Comments == {<<"PAUSE">>, <<"please", "RESUME">>, <<"PAUSE", "thanks">>}
Revisions ==
    {r \in [user : UserNames, groups : SUBSET Groups, cmt : Comments] :
        /\ r.user \in MAINTAINERS => r.groups = {}
        /\ Cardinality(r.groups) <= 1}

\* SaveError of page.save, in the order of the except clauses of fix_page
DroppedErrors == {"EditConflictError", "LockedPageError",
                  "AbuseFilterDisallowedError", "SpamblacklistError"}
OtherReasons == {"Editing restricted by {{bots}}", "other reason"}
RaisedErrors == {"PageSaveRelatedError", "Exception"}

VARIABLES
    pc,              \* where the single cooperative loop stands
    now,             \* SITE.server_time()
    editTime,        \* title -> time of the latest revision on the wiki
    q,               \* the PageQueue: pq, len, entry_finder, counter
    cutoff, old_time, current_time, last_load,   \* locals of continuous_page_gen
    PAUSED,          \* pagequeue.PAUSED
    original_status, \* local of check_pause_or_resume
    status_page,     \* the value last written by set_status_page
    rev,             \* the revision check_pause_or_resume handled last
    last_log,        \* "Paused" / "Resumed" when that revision was logged
    revs_seen,       \* revisions handled by the running check
    page, prio,      \* locals of pop_up_to; page is also p of mainloop
    count,           \* edits made by mainloop
    save_result,     \* outcome of the last page.save of fix_page
    exc,             \* the exception that ended the run ("" for none)
    yielded,         \* history: entries yielded by the running pop_up_to
    reinserted,      \* history: titles re-inserted by the running pop_up_to
    added,           \* history: title -> edit time of its latest add_page
    last_add         \* history: the latest add_page that updated an entry

\* the text engine: one call of a fixer on one text
VARIABLES
    t_pc,            \* where the running call stands ("" when there is none)
    text,            \* the text given to the call: its lines, and ends_nl
    lines,           \* fix_text: lines
    new_lines,       \* fix_text: new_lines
    rounds,          \* history: rounds of the three passes run by this call
    app,             \* history: 1 for fix_text(d), 2 for fix_text of its result
    first,           \* history: the lines returned by the first application
    cfg,             \* the parameters the fixer object was built with
    arg,             \* the arguments of the method that is called
    ret              \* what the method returned

textVars == <<t_pc, text, lines, new_lines, rounds, app, first, cfg, arg, ret>>

botVarsAll == <<pc, now, editTime, q, cutoff, old_time, current_time,
                last_load, PAUSED, original_status, status_page, rev,
                last_log, revs_seen, page, prio, count, save_result, exc,
                yielded, reinserted, added, last_add>>

vars == <<pc, now, editTime, q, cutoff, old_time, current_time,
          last_load, PAUSED, original_status, status_page, rev, last_log,
          revs_seen, page, prio, count, save_result, exc, yielded,
          reinserted, added, last_add, textVars>>

\* ------------------------------------------------------------- PageQueue
EmptyFun == [x \in {} |-> 0]

\* PageQueue.__init__
NewQueue == [pq |-> {}, len |-> 0, entry_finder |-> EmptyFun, counter |-> 1]

\* a clear that leaves the queue as it is
Clear_nothing(queue) == queue

\* PageQueue.clear
Clear(queue) == [pq |-> {}, len |-> 0, entry_finder |-> EmptyFun, counter |-> 1]

\* a heap that keeps the latest edit time on top
EntryLessMax(a, b) ==
    \/ a.prio > b.prio
    \/ a.prio = b.prio /\ a.count < b.count

\* order of the heap entries [editTime, counter, page]: Python compares the
\* lists item by item; editTime and counter never both tie
EntryLess(a, b) ==
    \/ a.prio < b.prio
    \/ a.prio = b.prio /\ a.count < b.count

\* self._pq[0], the smallest entry of the heap
Top(pq) == CHOOSE e \in pq : \A o \in pq : o = e \/ EntryLess(e, o)

\* remove_page that leaves the length as it is
RemovePage_nolen(queue, title) ==
    LET id == queue.entry_finder[title]
    IN [queue EXCEPT
          !.entry_finder = [x \in (DOMAIN queue.entry_finder) \ {title}
                              |-> queue.entry_finder[x]],
          !.pq = {IF e.count = id THEN [e EXCEPT !.page = REMOVED] ELSE e
                    : e \in queue.pq}]

\* PageQueue.remove_page: the entry stays in the heap as a tombstone
RemovePage(queue, title) ==
    LET id == queue.entry_finder[title]
    IN [queue EXCEPT
          !.entry_finder = [x \in (DOMAIN queue.entry_finder) \ {title}
                              |-> queue.entry_finder[x]],
          !.pq = {IF e.count = id THEN [e EXCEPT !.page = REMOVED] ELSE e
                    : e \in queue.pq},
          !.len = queue.len - 1]

\* add_page that pushes a second entry without tombstoning the first
AddPageNoRemove(queue, title, t) ==
    LET entry == [prio |-> t, count |-> queue.counter, page |-> title]
    IN [pq |-> queue.pq \cup {entry},
        len |-> queue.len + 1,
        entry_finder |-> (title :> entry.count) @@ queue.entry_finder,
        counter |-> queue.counter + 1]

\* PageQueue.add_page with page.title() = title and page.editTime() = t
AddPage(queue, title, t) ==
    LET q1 == IF title \in DOMAIN queue.entry_finder
              THEN RemovePage(queue, title) ELSE queue
        entry == [prio |-> t, count |-> q1.counter, page |-> title]
    IN [pq |-> q1.pq \cup {entry},
        len |-> q1.len + 1,
        entry_finder |-> (title :> entry.count) @@ q1.entry_finder,
        counter |-> q1.counter + 1]

\* PageQueue.add_from: pages is a sequence of Page records
RECURSIVE AddFrom(_, _)
AddFrom(queue, pages) ==
    IF pages = << >> THEN queue
    ELSE AddFrom(AddPage(queue, Head(pages).title, Head(pages).editTime),
                 Tail(pages))

\* PageQueue.pop_page: the queue after the call and the title returned
\* ("KeyError" when the heap holds no live entry)
RECURSIVE PopPage(_)
PopPage(queue) ==
    IF queue.pq = {} THEN [queue |-> queue, page |-> "KeyError"]
    ELSE LET e == Top(queue.pq)
             rest == [queue EXCEPT !.pq = queue.pq \ {e}]
         IN IF e.page # REMOVED
            THEN [queue |-> [rest EXCEPT
                               !.entry_finder =
                                   [x \in (DOMAIN queue.entry_finder) \ {e.page}
                                      |-> queue.entry_finder[x]],
                               !.len = queue.len - 1],
                  page |-> e.page]
            ELSE PopPage(rest)

\* len(queue)
QLen(queue) == queue.len

LiveEntries(queue) == {e \in queue.pq : e.page # REMOVED}

LivePrio(queue, title) ==
    (CHOOSE e \in LiveEntries(queue) : e.page = title).prio

\* ---------------------------------------------------------- control plane
\* cmt.endswith(word); a comment is a sequence of words
EndsWith(cmt, word) == Len(cmt) > 0 /\ cmt[Len(cmt)] = word

IsAdmin(r) == r.user \in MAINTAINERS \/ "sysop" \in r.groups

\* can_stop granted to autoconfirmed users only
CanStopAutoOnly(r) == "autoconfirmed" \in r.groups

\* can_stop and can_resume of check_pause_or_resume; a revision whose author
\* has neither is skipped by the continue
CanStop(r) == IsAdmin(r) \/ "autoconfirmed" \in r.groups

\* can_resume granted to autoconfirmed users too
CanResumeAuto(r) == IsAdmin(r) \/ "autoconfirmed" \in r.groups

CanResume(r) == IsAdmin(r)

Skipped(r) == ~IsAdmin(r) /\ "autoconfirmed" \notin r.groups

\* the status written at the end of the loop body of check_pause_or_resume
\* ("" when set_status_page is not called)
Publish(original, paused) ==
    IF original # paused THEN (IF paused THEN "paused" ELSE "active") ELSE ""

\* the body of the for loop of check_pause_or_resume for one revision
RevBody(paused, original, r) ==
    IF Skipped(r) THEN [paused |-> paused, log |-> "", publish |-> ""]
    ELSE IF EndsWith(r.cmt, "PAUSE") /\ ~paused /\ CanStop(r)
         THEN [paused |-> TRUE, log |-> "Paused",
               publish |-> Publish(original, TRUE)]
    ELSE IF EndsWith(r.cmt, "RESUME") /\ paused /\ CanResume(r)
         THEN [paused |-> FALSE, log |-> "Resumed",
               publish |-> Publish(original, FALSE)]
    ELSE [paused |-> paused, log |-> "", publish |-> Publish(original, paused)]

\* ----------------------------------------------------------------- poller
NoAdd == [title |-> "", old |-> 0, new |-> 0]

\* every order in which potential_page_gen can hand over pages of S
Orders(S) ==
    {s \in UNION {[1..n -> S] : n \in 0..Cardinality(S)} :
        \A i, j \in DOMAIN s : i # j => s[i] # s[j]}

\* a change feed whose window also takes the second before its start
Changed_overlap(start, end) == {t \in Titles : start - 1 <= editTime[t] /\ editTime[t] <= end}

\* recent_changes_gen(start, end): titles with a reported change in the window
Changed(start, end) == {t \in Titles : start <= editTime[t] /\ editTime[t] <= end}

\* the preloaded Page objects of potential_page_gen, editTime as preloaded
Pages(order) == [i \in DOMAIN order |-> [title |-> order[i], editTime |-> editTime[order[i]]]]

AddedAfter(old, pages) ==
    [t \in Titles |->
        IF \E i \in DOMAIN pages : pages[i].title = t
        THEN (CHOOSE pg \in {pages[i] : i \in DOMAIN pages} : pg.title = t).editTime
        ELSE old[t]]

LastAddAfter(queue, pages) ==
    LET upd == {i \in DOMAIN pages : pages[i].title \in DOMAIN queue.entry_finder}
    IN IF upd = {} THEN NoAdd
       ELSE LET i == CHOOSE k \in upd : \A m \in upd : m <= k
            IN [title |-> pages[i].title,
                old |-> LivePrio(queue, pages[i].title),
                new |-> pages[i].editTime]

\* a loop that drains whatever the flag says
MayDrainAlways(paused) == TRUE

\* if not PAUSED (continuous_page_gen)
MayDrain(paused) == ~paused

\* a loop that loads in every iteration
MustLoadAlways(last, cut) == TRUE

\* if last_load < cutoff
MustLoad(last, cut) == last < cut

\* pop_up_to that trusts the remembered edit time
ShouldReinsertNever(fresh, priority) == FALSE

\* pop_up_to that also re-inserts a page edited exactly at the cutoff
ShouldReinsertGE(fresh, priority) == fresh >= priority

\* if page.editTime() > priority (pop_up_to)
ShouldReinsert(fresh, priority) == fresh > priority

\* if prio > priority: break (pop_up_to)
NotDue(p, priority) == p > priority

\* ---------------------------------------------------------------- fix_page
SaveResults ==
    {[err |-> "", reason |-> ""]}
    \cup [err : DroppedErrors \cup RaisedErrors, reason : {""}]
    \cup [err : {"OtherPageSaveError"}, reason : OtherReasons]

\* no page.save was made by the step just taken
NoSave == [err |-> "", reason |-> "no save"]

\* err.reason.startswith('Editing restricted by {{bots}}')
RestrictedByBots(reason) == reason = "Editing restricted by {{bots}}"

\* a fix_page whose last except clause logs without raising
SaveOutcomeSwallow(res) ==
    IF res.err = "" THEN "diff"
    ELSE IF res.err \in DroppedErrors THEN "none"
    ELSE IF res.err = "OtherPageSaveError"
         THEN (IF RestrictedByBots(res.reason) THEN "none" ELSE "raise")
    ELSE IF res.err = "Exception" THEN "none"
    ELSE "raise"

\* a fix_page that re-raises every error of page.save
SaveOutcomeStrict(res) == IF res.err = "" THEN "diff" ELSE "raise"

\* what the try statement of fix_page does with the outcome of page.save
SaveOutcome(res) ==
    IF res.err = "" THEN "diff"
    ELSE IF res.err \in DroppedErrors THEN "none"
    ELSE IF res.err = "OtherPageSaveError"
         THEN (IF RestrictedByBots(res.reason) THEN "none" ELSE "raise")
    ELSE "raise"

\* if count >= limit: break (mainloop)
LimitReached(c) == c >= Limit

\* ------------------------------------------------------------------- Init
\* no fixer is running
\* the text engine at position p, before anything is called
TextStart(p) ==
    /\ t_pc = p
    /\ text = [lines |-> << >>, ends_nl |-> FALSE]
    /\ lines = << >> /\ new_lines = << >>
    /\ rounds = 0 /\ app = 0
    /\ first = << >>
    /\ cfg = [fixer |-> ""]
    /\ arg = [method |-> ""]
    /\ ret = [method |-> ""]

\* the bot of run.py does not call the text engine here
TextIdle == TextStart("")

\* the bot before run() is called
BotInit ==
    /\ pc = "run"
    /\ now = 0
    /\ editTime = [t \in Titles |-> LongAgo]
    /\ q = NewQueue
    /\ cutoff = 0 /\ old_time = 0 /\ current_time = 0 /\ last_load = 0
    /\ PAUSED = FALSE
    /\ original_status = FALSE
    /\ status_page = ""
    /\ rev = NoRev /\ last_log = "" /\ revs_seen = 0
    /\ page = NoPage /\ prio = 0
    /\ count = 0
    /\ save_result = NoSave
    /\ exc = ""
    /\ yielded = << >>
    /\ reinserted = {}
    /\ added = [t \in Titles |-> LongAgo]
    /\ last_add = NoAdd

Init == BotInit /\ TextIdle

wikiVars == <<now, editTime>>
genVars == <<cutoff, old_time, current_time, last_load>>
ctlVars == <<PAUSED, original_status, rev, last_log, revs_seen>>
popVars == <<page, prio, yielded, reinserted>>
fixVars == <<count, save_result, exc>>
histVars == <<added, last_add>>

\* ------------------------------------------------------------ environment
\* the clock advances while the loop sleeps or saves a page
Tick ==
    /\ pc \in {"sleep", "fix"}
    /\ now < MaxTime
    /\ now' = now + 1
    /\ UNCHANGED <<pc, editTime, q, genVars, ctlVars, status_page,
                   popVars, fixVars, histVars>>
    /\ UNCHANGED textVars

\* somebody edits a page; edits made while the poller or pop_up_to is at work
\* are seen as edits made right after it
Edit(t) ==
    /\ pc \in {"run", "sleep", "fix"}
    /\ editTime[t] # now
    /\ editTime' = [editTime EXCEPT ![t] = now]
    /\ UNCHANGED <<pc, now, q, genVars, ctlVars, status_page,
                   popVars, fixVars, histVars>>
    /\ UNCHANGED textVars

\* -------------------------------------------------------------------- run
\* the finally clause of run(): pat.set_status_page('inactive')
Finally == "inactive"

\* the process ends: the generator, its queue and the module globals are gone
Exit ==
    /\ pc' = "done"
    /\ q' = NewQueue
    /\ cutoff' = 0 /\ old_time' = 0 /\ current_time' = 0 /\ last_load' = 0
    /\ PAUSED' = FALSE /\ original_status' = FALSE
    /\ rev' = NoRev /\ last_log' = "" /\ revs_seen' = 0
    /\ page' = NoPage /\ prio' = 0
    /\ yielded' = << >> /\ reinserted' = {}
    /\ added' = [t \in Titles |-> LongAgo]
    /\ last_add' = NoAdd

\* run(): pat.set_status_page('active'), then the try block
RunStart ==
    /\ pc = "run"
    /\ status_page' = "active"
    /\ pc' = "init"
    /\ UNCHANGED <<wikiVars, q, genVars, ctlVars, popVars, fixVars, histVars>>
    /\ UNCHANGED textVars

\* an exception raised inside the try block of run(), other than by fix_page:
\* except BaseException logs it, finally publishes 'inactive'
RunAbort ==
    /\ pc \notin {"run", "done"}
    /\ exc' = "BaseException"
    /\ status_page' = Finally
    /\ save_result' = NoSave
    /\ Exit
    /\ UNCHANGED <<wikiVars, count>>
    /\ UNCHANGED textVars

\* ---------------------------------------------------- continuous_page_gen
\* lines 160-167: the first load, then the first pop_up_to(cutoff) starts
GenInit ==
    /\ pc = "init"
    /\ \E order \in Orders(Changed((now - Delay) - Chunk, now)) :
          /\ q' = AddFrom(q, Pages(order))
          /\ added' = AddedAfter(added, Pages(order))
          /\ last_add' = LastAddAfter(q, Pages(order))
    /\ old_time' = now
    /\ current_time' = now
    /\ cutoff' = now - Delay
    /\ last_load' = now
    /\ yielded' = << >>
    /\ reinserted' = {}
    /\ pc' = "drain"
    /\ UNCHANGED <<wikiVars, ctlVars, status_page, page, prio, fixVars>>
    /\ UNCHANGED textVars

\* lines 170-174: the sleep is over, the server time is read and
\* check_pause_or_resume(old_time + sec, current_time) is entered
LoopIter ==
    /\ pc = "sleep"
    /\ now >= old_time + Chunk
    /\ current_time' = now
    /\ cutoff' = now - Delay
    /\ original_status' = PAUSED
    /\ last_add' = NoAdd
    /\ pc' = "check"
    /\ UNCHANGED <<wikiVars, q, old_time, last_load, PAUSED, rev, last_log,
                   revs_seen, status_page, popVars, fixVars, added>>
    /\ UNCHANGED textVars

\* one pass of the for loop of check_pause_or_resume
CheckRev ==
    /\ pc = "check"
    /\ revs_seen < MaxRevs
    /\ \E r \in Revisions :
          LET res == RevBody(PAUSED, original_status, r)
          IN /\ rev' = r
             /\ PAUSED' = res.paused
             /\ last_log' = res.log
             /\ status_page' = IF res.publish = "" THEN status_page
                               ELSE res.publish
    /\ revs_seen' = revs_seen + 1
    /\ UNCHANGED <<pc, wikiVars, q, genVars, original_status, popVars,
                   fixVars, histVars>>
    /\ UNCHANGED textVars

\* page.revisions is exhausted: check_pause_or_resume returns
CheckReturn ==
    /\ pc = "check"
    /\ pc' = "checked"
    /\ original_status' = FALSE
    /\ rev' = NoRev
    /\ last_log' = ""
    /\ revs_seen' = 0
    /\ UNCHANGED <<wikiVars, q, genVars, PAUSED, status_page, popVars,
                   fixVars, histVars>>
    /\ UNCHANGED textVars

\* lines 175-180: not paused, load when due, then pop_up_to(cutoff) starts
LoadAndDrain ==
    /\ pc = "checked"
    /\ MayDrain(PAUSED)
    /\ IF MustLoad(last_load, cutoff)
       THEN /\ \E order \in Orders(Changed(last_load + 1, current_time)) :
                  /\ q' = AddFrom(q, Pages(order))
                  /\ added' = AddedAfter(added, Pages(order))
                  /\ last_add' = LastAddAfter(q, Pages(order))
            /\ last_load' = current_time
       ELSE UNCHANGED <<q, last_load, histVars>>
    /\ yielded' = << >>
    /\ reinserted' = {}
    /\ pc' = "drain"
    /\ UNCHANGED <<wikiVars, cutoff, old_time, current_time, ctlVars,
                   status_page, page, prio, fixVars>>
    /\ UNCHANGED textVars

\* lines 181-188: paused, the queue is reset
PausedReset ==
    /\ pc = "checked"
    /\ ~MayDrain(PAUSED)
    /\ q' = Clear(q)
    /\ last_load' = cutoff
    /\ old_time' = current_time
    /\ added' = [t \in Titles |-> LongAgo]
    /\ last_add' = NoAdd
    /\ pc' = "sleep"
    /\ UNCHANGED <<wikiVars, cutoff, current_time, ctlVars, status_page,
                   popVars, fixVars>>
    /\ UNCHANGED textVars

\* ------------------------------------------------------ PageQueue.pop_up_to
\* the while loop ends (empty heap or break); line 188 follows
PopBreak ==
    /\ pc = "drain"
    /\ IF q.pq = {} THEN TRUE ELSE NotDue(Top(q.pq).prio, cutoff)
    /\ old_time' = current_time
    /\ page' = NoPage /\ prio' = 0
    /\ yielded' = << >> /\ reinserted' = {}
    /\ save_result' = NoSave
    /\ last_add' = NoAdd
    /\ pc' = "sleep"
    /\ UNCHANGED <<wikiVars, q, cutoff, current_time, last_load, ctlVars,
                   status_page, count, exc, added>>
    /\ UNCHANGED textVars

\* the tombstone at the top of the heap is left there
PopDiscard_keep ==
    /\ pc = "drain"
    /\ q.pq # {}
    /\ ~NotDue(Top(q.pq).prio, cutoff)
    /\ Top(q.pq).page = REMOVED
    /\ prio' = Top(q.pq).prio
    /\ q' = q
    /\ last_add' = NoAdd
    /\ save_result' = NoSave
    /\ UNCHANGED <<pc, wikiVars, genVars, ctlVars, status_page, page,
                   yielded, reinserted, count, exc, added>>
    /\ UNCHANGED textVars

\* a tombstone at the top of the heap is discarded
PopDiscard ==
    /\ pc = "drain"
    /\ q.pq # {}
    /\ ~NotDue(Top(q.pq).prio, cutoff)
    /\ Top(q.pq).page = REMOVED
    /\ prio' = Top(q.pq).prio
    /\ q' = [q EXCEPT !.pq = q.pq \ {Top(q.pq)}]
    /\ last_add' = NoAdd
    /\ save_result' = NoSave
    /\ UNCHANGED <<pc, wikiVars, genVars, ctlVars, status_page, page,
                   yielded, reinserted, count, exc, added>>
    /\ UNCHANGED textVars

\* the except clause passes: the entry stays where it is
PopGone_pass(t) ==
    /\ pc = "drain"
    /\ q.pq # {}
    /\ ~NotDue(Top(q.pq).prio, cutoff)
    /\ Top(q.pq).page = t
    /\ prio' = Top(q.pq).prio
    /\ page' = [title |-> Top(q.pq).page, editTime |-> prio']
    /\ last_add' = NoAdd
    /\ save_result' = NoSave
    /\ UNCHANGED <<pc, wikiVars, genVars, ctlVars, status_page, yielded,
                   reinserted, count, exc, q, added>>
    /\ UNCHANGED textVars

\* page.get(force=True) raises IsRedirectPageError or NoPageError for the
\* page at the top of the heap, whose title is t
PopGone(t) ==
    /\ pc = "drain"
    /\ q.pq # {}
    /\ ~NotDue(Top(q.pq).prio, cutoff)
    /\ Top(q.pq).page = t
    /\ prio' = Top(q.pq).prio
    /\ page' = [title |-> Top(q.pq).page, editTime |-> prio']
    /\ q' = PopPage(q).queue
    /\ added' = [added EXCEPT ![PopPage(q).page] = LongAgo]
    /\ last_add' = NoAdd
    /\ save_result' = NoSave
    /\ UNCHANGED <<pc, wikiVars, genVars, ctlVars, status_page, yielded,
                   reinserted, count, exc>>
    /\ UNCHANGED textVars

\* page.get(force=True) succeeds for the page at the top of the heap, whose
\* title is t, and page.editTime() is then fresh.
\* The page was edited after the cutoff: add_page(page)
PopReinsert(t, fresh) ==
    /\ pc = "drain"
    /\ q.pq # {}
    /\ ~NotDue(Top(q.pq).prio, cutoff)
    /\ Top(q.pq).page = t
    /\ LET title == Top(q.pq).page
       IN /\ ShouldReinsert(fresh, cutoff)
          /\ prio' = Top(q.pq).prio
          /\ page' = [title |-> title, editTime |-> fresh]
          /\ q' = AddPage(q, title, fresh)
          /\ added' = [added EXCEPT ![title] = fresh]
          /\ last_add' = [title |-> title, old |-> Top(q.pq).prio, new |-> fresh]
          /\ reinserted' = reinserted \cup {title}
    /\ save_result' = NoSave
    /\ UNCHANGED <<pc, wikiVars, genVars, ctlVars, status_page, yielded,
                   count, exc>>
    /\ UNCHANGED textVars

\* yield self.pop_page(): control passes to the for loop of the caller
PopYield(t, fresh) ==
    /\ pc = "drain"
    /\ q.pq # {}
    /\ ~NotDue(Top(q.pq).prio, cutoff)
    /\ Top(q.pq).page = t
    /\ LET title == Top(q.pq).page
       IN /\ ~ShouldReinsert(fresh, cutoff)
          /\ prio' = Top(q.pq).prio
          /\ page' = [title |-> PopPage(q).page, editTime |-> fresh]
          /\ q' = PopPage(q).queue
          /\ added' = [added EXCEPT ![PopPage(q).page] = LongAgo]
          /\ yielded' = Append(yielded, Top(q.pq))
    /\ last_add' = NoAdd
    /\ save_result' = NoSave
    /\ pc' = "fix"
    /\ UNCHANGED <<wikiVars, genVars, ctlVars, status_page, reinserted,
                   count, exc>>
    /\ UNCHANGED textVars

\* --------------------------------------------------------------- mainloop
\* what follows fix_page in the for loop: count, the limit check, and either
\* the next step of the generator or the end of run()
AfterFix(outcome, res) ==
    /\ save_result' = res
    /\ count' = IF outcome = "diff" THEN count + 1 ELSE count
    /\ IF outcome = "raise"
       THEN /\ exc' = res.err
            /\ status_page' = Finally
            /\ Exit
       ELSE /\ exc' = exc
            /\ IF LimitReached(count')
               THEN status_page' = Finally /\ Exit
               ELSE /\ status_page' = status_page
                    /\ pc' = "drain"
                    /\ UNCHANGED <<q, genVars, ctlVars, popVars, histVars>>

\* fixer.total_score < threshold: fix_page returns None without saving
FixSkip ==
    /\ pc = "fix"
    /\ AfterFix("none", NoSave)
    /\ UNCHANGED wikiVars
    /\ UNCHANGED textVars

\* fixer.total_score >= threshold: page.save succeeds or raises
FixSave ==
    /\ pc = "fix"
    /\ \E res \in SaveResults :
          /\ AfterFix(SaveOutcome(res), res)
          /\ editTime' = IF res.err = ""
                         THEN [editTime EXCEPT ![page.title] = now]
                         ELSE editTime
    /\ UNCHANGED now
    /\ UNCHANGED textVars

Next ==
    \/ Tick
    \/ \E t \in Watched : Edit(t)
    \/ RunStart
    \/ RunAbort
    \/ GenInit
    \/ LoopIter
    \/ CheckRev
    \/ CheckReturn
    \/ LoadAndDrain
    \/ PausedReset
    \/ PopBreak
    \/ PopDiscard
    \/ \E t \in Titles : PopGone(t)
    \/ \E t \in Titles : PopReinsert(t, editTime[t])
    \/ \E t \in Titles : PopYield(t, editTime[t])
    \/ FixSkip
    \/ FixSave

Spec == Init /\ [][Next]_vars

\* ---------------------------------------------------------------------------
\* QueueSpec: a caller that drives one PageQueue through its methods in any
\* order, with pages of any edit time; every forced re-fetch of pop_up_to
\* finds any edit time or no page.  The caller is at "sleep" between two
\* calls, pop_up_to runs at "drain" and hands each page it yields to the
\* caller at "fix".
QInit ==
    /\ pc = "sleep"
    /\ now = 0
    /\ editTime = [t \in Titles |-> LongAgo]
    /\ q = NewQueue
    /\ cutoff = 0 /\ old_time = 0 /\ current_time = 0 /\ last_load = 0
    /\ PAUSED = FALSE
    /\ original_status = FALSE
    /\ status_page = ""
    /\ rev = NoRev /\ last_log = "" /\ revs_seen = 0
    /\ page = NoPage /\ prio = 0
    /\ count = 0
    /\ save_result = NoSave
    /\ exc = ""
    /\ yielded = << >>
    /\ reinserted = {}
    /\ added = [t \in Titles |-> LongAgo]
    /\ last_add = NoAdd
    /\ TextIdle

botVars == <<now, old_time, current_time, last_load, ctlVars, status_page,
             fixVars>>

\* queue.add_page(page) with page.title() = t and page.editTime() = time
QAddPage(t, time) ==
    /\ pc = "sleep"
    /\ q.counter <= MaxCount
    /\ q' = AddPage(q, t, time)
    /\ added' = [added EXCEPT ![t] = time]
    /\ last_add' = IF t \in DOMAIN q.entry_finder
                   THEN [title |-> t, old |-> LivePrio(q, t), new |-> time]
                   ELSE NoAdd
    /\ UNCHANGED <<pc, editTime, cutoff, botVars, popVars>>
    /\ UNCHANGED textVars

\* queue.remove_page(title); KeyError when the title is not queued
QRemovePage(t) ==
    /\ pc = "sleep"
    /\ t \in DOMAIN q.entry_finder
    /\ q' = RemovePage(q, t)
    /\ added' = [added EXCEPT ![t] = LongAgo]
    /\ last_add' = NoAdd
    /\ UNCHANGED <<pc, editTime, cutoff, botVars, popVars>>
    /\ UNCHANGED textVars

\* queue.pop_page(), the page returned is dropped; the call empties a heap
\* of tombstones before its KeyError
QPopPage ==
    /\ pc = "sleep"
    /\ q.pq # {}
    /\ q' = PopPage(q).queue
    /\ added' = [t \in Titles |->
                    IF t = PopPage(q).page THEN LongAgo ELSE added[t]]
    /\ last_add' = NoAdd
    /\ UNCHANGED <<pc, editTime, cutoff, botVars, popVars>>
    /\ UNCHANGED textVars

\* queue.clear()
QClear ==
    /\ pc = "sleep"
    /\ q.counter > 1
    /\ q' = Clear(q)
    /\ added' = [t \in Titles |-> LongAgo]
    /\ last_add' = NoAdd
    /\ UNCHANGED <<pc, editTime, cutoff, botVars, popVars>>
    /\ UNCHANGED textVars

\* for page in queue.pop_up_to(priority): the generator is started
QPopUpTo(priority) ==
    /\ pc = "sleep"
    /\ cutoff' = priority
    /\ yielded' = << >>
    /\ reinserted' = {}
    /\ last_add' = NoAdd
    /\ pc' = "drain"
    /\ UNCHANGED <<editTime, q, botVars, page, prio, added>>
    /\ UNCHANGED textVars

\* the caller is done with the page and asks the generator for the next one
QConsume ==
    /\ pc = "fix"
    /\ pc' = "drain"
    /\ UNCHANGED <<editTime, q, cutoff, botVars, popVars, histVars>>
    /\ UNCHANGED textVars

QNext ==
    \/ \E t \in Titles, time \in 0..MaxPrio : QAddPage(t, time)
    \/ \E t \in Titles : QRemovePage(t)
    \/ QPopPage
    \/ QClear
    \/ \E priority \in 0..MaxPrio : QPopUpTo(priority)
    \/ QConsume
    \/ PopBreak
    \/ PopDiscard
    \/ \E t \in Titles : PopGone(t)
    \/ \E t \in Titles, fresh \in 0..MaxPrio : PopReinsert(t, fresh)
    \/ \E t \in Titles, fresh \in 0..MaxPrio : PopYield(t, fresh)

QueueSpec == QInit /\ [][QNext]_vars

\* one step of a running pop_up_to: an iteration of its while loop, its end,
\* or the caller's for loop asking for the next page
PopUpToStep ==
    \/ QConsume
    \/ PopBreak
    \/ PopDiscard
    \/ \E t \in Titles : PopGone(t)
    \/ \E t \in Titles, fresh \in 0..MaxPrio : PopReinsert(t, fresh)
    \/ \E t \in Titles, fresh \in 0..MaxPrio : PopYield(t, fresh)

\* QueueSpec where a pop_up_to that was started keeps running: the
\* interpreter executes the next statement of the generator and of the for
\* loop that consumes it
QueueLive == QInit /\ [][QNext]_vars /\ WF_vars(PopUpToStep)

TypeOK ==
    /\ pc \in {"run", "init", "drain", "fix", "sleep", "check", "checked", "done"}
    /\ now \in 0..MaxTime
    /\ PAUSED \in BOOLEAN
    /\ status_page \in {"", "active", "paused", "inactive"}
    /\ count \in 0..Limit

\* BEGIN-TEXT
\* ======================================================== the line model
\* A line of line_partition is its indent_text, a sequence of ':', '*' and
\* '#', and what follows it:
\*   "text"   ordinary content, the newline that ends the line included
\*   "blank"  whitespace only (no indent): '\n'
\*   "empty"  the empty string '': the final segment of a text that ends
\*            with a newline, and a line blanked by fix_gaps
\*   "table"  content that starts with '{|'
\*   "note"   content ' <small>Note:'
\*   "break"  content with a newline that line_partition did not split on,
\*            followed by a template, a table or a tag
\*   "bare"   nothing but spaces and the final newline after the indent
IndentChars == {":", "*", "#"}

Markers == UNION {[1..n -> IndentChars] : n \in 0..MaxDepth}

Line(m, b) == [indent |-> m, body |-> b]
NL == Line(<< >>, "blank")
EMPTY == Line(<< >>, "empty")

is_blank_line(line) == line.body = "blank"
indent_text(line) == line.indent
indent_lvl(line) == Len(indent_text(line))

\* the value of a one-element set: a computed argument is bound once
The(S) == CHOOSE r \in S : TRUE

\* s.count(c)
CountChar(s, c) == Cardinality({k \in DOMAIN s : s[k] = c})

\* a '#' counts for two levels
visual_lvl(line) == Len(indent_text(line)) + CountChar(indent_text(line), "#")

has_linebreaking_newline(line) == line.body = "break"

\* re.match(r':*( |<comment>)*\{\|', line)
StartsWithTable(line) ==
    /\ line.body = "table"
    /\ \A k \in DOMAIN line.indent : line.indent[k] = ":"

\* re.match(r': ?<small[^>]*> ?Note:', line)
IsSmallNote(line) == line.body = "note" /\ line.indent = <<":">>

\* [x for x in lines if x]
IsNonEmpty(l) == l # EMPTY
NonEmpty(ls) == SelectSeq(ls, IsNonEmpty)

\* the lines of a text whose lines are ls; ends_nl: the text ends with '\n'
Partition(ls, ends_nl) == IF ends_nl THEN ls \o <<EMPTY>> ELSE ls

Minimum(S) == CHOOSE k \in S : \A m \in S : k <= m
Maximum(S) == CHOOSE k \in S : \A m \in S : k >= m

\* ------------------------------------------- indent.py: the three passes
\* The passes exist twice: in indentbot/indent.py (called by fix_text) and,
\* older, in src/indent.py (called by apply_fixes). The parameter f names
\* the caller and so the variant that runs; "_fix_levels" is the loop of
\* fix_extra_indents as TextFixer._fix_levels has it.
Fixers == {"fix_text", "apply_fixes"}

\* txt.replace('*', ':')
Colons(m) == [k \in DOMAIN m |-> IF m[k] = "*" THEN ":" ELSE m[k]]

IsPrefix(a, b) == Len(a) <= Len(b) /\ SubSeq(b, 1, Len(a)) = a

\* next((k for k in range(i + 1, n) if not is_blank_line(lines[k])), n)
NextNonBlank(ls, i) ==
    LET S == {k \in (i+1)..Len(ls) : ~is_blank_line(ls[k])}
    IN IF S = {} THEN Len(ls) + 1 ELSE Minimum(S)

\* fix_gaps(lines) with squish = True and single_only = False: the while
\* loop from index i on; the lines of a removed gap become ''
RECURSIVE GapLoop(_, _, _)
GapLoop(ls, i, f) ==
    IF i > Len(ls) THEN ls
    ELSE IF indent_lvl(ls[i]) = 0 THEN GapLoop(ls, i + 1, f)
    ELSE LET j == NextNonBlank(ls, i)
         IN IF j > Len(ls) THEN ls
            ELSE LET lvl_j == indent_lvl(ls[j])
                     hash_i == Colons(indent_text(ls[i]))
                     hash_j == Colons(indent_text(ls[j]))
                     safe_to_remove ==
                         /\ lvl_j >= 1
                         /\ \/ j - i = 2
                            \/ lvl_j > 1
                            \/ /\ f = "apply_fixes"
                               /\ IsPrefix(hash_j, hash_i) \/ IsPrefix(hash_i, hash_j)
                     blanked == [k \in 1..Len(ls) |->
                                    IF i < k /\ k < j THEN EMPTY ELSE ls[k]]
                 IN The({GapLoop(a, b, f) :
                            a \in {IF safe_to_remove THEN blanked ELSE ls},
                            b \in {j}})

\* the argument of fix_gaps when it returns: "lines argument may be
\* altered" in indentbot/indent.py, while src/indent.py works on a copy
fix_gaps_altered(ls, f) ==
    IF f = "apply_fixes" THEN ls ELSE The({GapLoop(a, 1, f) : a \in {ls}})

fix_gaps(ls, f) == NonEmpty(The({GapLoop(a, 1, f) : a \in {ls}}))

\* the line is left as it is
CutIndent_nothing(l, x, diff) == l

\* the characters are cut from the end of the indent
CutIndent_end(l, x, diff) ==
    [l EXCEPT !.indent = SubSeq(l.indent, 1, Len(l.indent) - (diff - 1))]

\* l[:x] + l[x + diff - 1:]
CutIndent(l, x, diff) ==
    [l EXCEPT !.indent = SubSeq(l.indent, 1, x)
                         \o SubSeq(l.indent, x + diff, Len(l.indent))]

\* the inner loop of fix_extra_indents from index j on: the lines are cut
\* up to the first one whose level is below y; TextFixer._fix_levels also
\* stops at a line that has a '#' in l[x:y-1] and none at l[y-1]
CutRun(ls, j, x, y, diff, f) ==
    LET numbered(l) == /\ f = "_fix_levels"
                       /\ \E k \in (x + 1)..(y - 1) : l.indent[k] = "#"
                       /\ l.indent[y] # "#"
        stop == Minimum({k \in j..Len(ls) :
                            indent_lvl(ls[k]) < y \/ numbered(ls[k])}
                            \cup {Len(ls) + 1})
    IN [k \in 1..Len(ls) |->
            IF j <= k /\ k < stop THEN CutIndent(ls[k], x, diff) ELSE ls[k]]

\* the outer loop of fix_extra_indents from index i on; src/indent.py
\* removes one character less when the jump starts from a '#' and does not
\* end with a ':'
RECURSIVE ExtraLoop(_, _, _)
ExtraLoop(ls, i, f) ==
    IF i >= Len(ls) THEN ls
    ELSE LET x == indent_lvl(ls[i])
             y == indent_lvl(ls[i + 1])
             less == /\ f = "apply_fixes"
                     /\ x > 0
                     /\ ls[i].indent[x] = "#"
                     /\ ls[i + 1].indent[y] # ":"
         IN IF y - x <= 1 THEN ExtraLoop(ls, i + 1, f)
            ELSE IF visual_lvl(ls[i + 1]) - visual_lvl(ls[i]) <= 1
                 THEN ExtraLoop(ls, i + 1, f)
            ELSE The({ExtraLoop(a, b, f) :
                        a \in {CutRun(ls, i + 1, x, y,
                                      IF less THEN y - x - 1 ELSE y - x, f)},
                        b \in {i + 1}})

\* fix_extra_indents returning the inserted first line too
fix_extra_indents_keep(ls, f) ==
    The({ExtraLoop(a, 1, f) : a \in {<<NL>> \o ls}})

fix_extra_indents(ls, f) ==
    Tail(The({ExtraLoop(a, 1, f) : a \in {<<NL>> \o ls}}))

\* the character of the memory is written, whatever the line has
StyleChar_memory(c1, c2, absorb) == IF absorb THEN "#" ELSE c1

\* the character that the body of the while loop adds to new_prefix for the
\* remembered character c1 and the line's character c2; absorb: c1 is '#'
\* and the line goes on with '::', which the one '#' replaces
StyleChar(c1, c2, absorb) ==
    IF c1 = "#" THEN (IF absorb THEN "#" ELSE c2)
    ELSE IF c2 = "#" THEN c2
    ELSE c1

\* the while loop of fix_indent_style: the remembered indent mem (of length
\* minlvl) and the indent ind of the line are walked in lockstep; steps
\* holds, for each pass through the body, the remembered character c1, the
\* line's character c2, the character written, and whether a second
\* character of the line was taken with it

RECURSIVE StyleWalk(_, _, _, _, _, _)
StyleWalk(mem, ind, p1, p2, new_prefix, steps) ==
    IF ~(p1 < Len(mem) /\ p2 < Len(ind))
    THEN [new_prefix |-> new_prefix, p2 |-> p2, steps |-> steps]
    ELSE LET c1 == mem[p1 + 1]
             c2 == ind[p2 + 1]
             absorb == /\ c1 = "#"
                       /\ p2 <= Len(ind) - 3
                       /\ ind[p2 + 1] = ":" /\ ind[p2 + 2] = ":"
             written == StyleChar(c1, c2, absorb)
         IN The({StyleWalk(mem, ind, p1 + 1, a, Append(new_prefix, w), b) :
                    w \in {written},
                    a \in {IF absorb THEN p2 + 2 ELSE p2 + 1},
                    b \in {Append(steps, [c1 |-> c1, c2 |-> c2,
                                           written |-> written,
                                           absorbed |-> absorb])}})

\* new_prefix + line[p2:lvl]
StyleIndent(mem, ind) ==
    LET w == StyleWalk(mem, ind, 0, 0, << >>, << >>)
    IN w.new_prefix \o SubSeq(ind, w.p2 + 1, Len(ind))

\* indent_dict = {0: ''}
NoMemory == [k \in {0} |-> << >>]

Remember(indent_dict, new_indent) ==
    [k \in DOMAIN indent_dict \cup {Len(new_indent)} |->
        IF k = Len(new_indent) THEN new_indent ELSE indent_dict[k]]

\* the for loop of fix_indent_style from line i on; src/indent.py has
\* neither the two exceptions nor the reset of the memory
RECURSIVE StyleLoop(_, _, _, _, _, _)
StyleLoop(ls, i, prev_lvl, indent_dict, out, f) ==
    IF i > Len(ls) THEN out
    ELSE LET line == ls[i]
             old_indent == indent_text(line)
             lvl == Len(old_indent)
             lo == IF lvl < prev_lvl THEN lvl ELSE prev_lvl
             minlvl == Maximum({k \in DOMAIN indent_dict : k <= lo})
             keep == /\ f = "fix_text"
                     /\ StartsWithTable(line) \/ IsSmallNote(line)
             reset == /\ f = "fix_text"
                      /\ lvl = 0 \/ has_linebreaking_newline(line)
             new_indent == IF keep THEN old_indent
                           ELSE StyleIndent(indent_dict[minlvl], old_indent)
             stored == IF keep THEN indent_dict
                       ELSE Remember(indent_dict, new_indent)
             new_line == [line EXCEPT !.indent = new_indent]
         IN The({StyleLoop(ls, i + 1, Len(a), b, Append(out, c), f) :
                    a \in {new_indent},
                    b \in {IF reset THEN NoMemory ELSE stored},
                    c \in {new_line}})

fix_indent_style(ls, f) ==
    The({StyleLoop(a, 1, 0, NoMemory, << >>, f) : a \in {ls}})

\* one round: the three passes in their fixed order
Round(ls, f) == fix_indent_style(fix_extra_indents(fix_gaps(ls, f), f), f)

\* ------------------------------------------------- indent.py: fix_text
\* every run of fix_text ends long before this many rounds
MaxRounds == MaxDepth + 3

DocLines ==
    {Line(m, "text") : m \in Markers}
        \cup {NL, Line(<<":">>, "table"), Line(<<":">>, "note"),
              Line(<<":">>, "break")}

Docs == UNION {[1..n -> DocLines] : n \in 1..MaxLines}

Texts == [lines : Docs, ends_nl : BOOLEAN]

\* the texts of at most n lines whose k-th line has at most k indent
\* characters, made of ordinary and blank lines
RECURSIVE StairDocs(_)
StairDocs(n) ==
    IF n = 0 THEN {}
    ELSE LET prev == StairDocs(n - 1)
             longest == IF n = 1 THEN {<< >>} ELSE {d \in prev : Len(d) = n - 1}
             depth == IF n < MaxDepth THEN n ELSE MaxDepth
             ms == UNION {[1..j -> IndentChars] : j \in 0..depth}
         IN prev \cup {Append(d, l) : d \in longest,
                                      l \in {Line(m, "text") : m \in ms} \cup {NL}}

\* page texts as the wiki hands them out: trailing newlines are stripped
LiveTexts == [lines : StairDocs(MaxLines), ends_nl : {FALSE}]

\* the deepest indent of a text
MaxIndent(ls) == Maximum({0} \cup {Len(ls[k].indent) : k \in DOMAIN ls})

\* while new_lines != lines, with the loop left after the first round
LoopConditionNever(new, old) == FALSE

\* while new_lines != lines, with a loop that is never left
LoopConditionAlways(new, old) == TRUE

\* while new_lines != lines
LoopCondition(new, old) == new # old

\* before fix_text is called
DriverInit == BotInit /\ TextStart("call")

\* fix_text(title, text) or apply_fixes(text) is called with one text of
\* the set T
Call(T) ==
    /\ t_pc = "call"
    /\ \E tx \in T, f \in Fixers :
          /\ text' = tx
          /\ cfg' = [fixer |-> f]
          /\ arg' = [method |-> f, text |-> tx]
    /\ t_pc' = "fix_text"
    /\ app' = 1
    /\ UNCHANGED <<botVarsAll, lines, new_lines, rounds, first, ret>>

\* lines = line_partition(title, text) and the three passes before the loop;
\* fix_gaps alters lines
FirstRound ==
    /\ t_pc = "fix_text"
    /\ LET ls == Partition(text.lines, text.ends_nl)
       IN /\ lines' = fix_gaps_altered(ls, cfg.fixer)
          /\ new_lines' = Round(ls, cfg.fixer)
    /\ rounds' = 1
    /\ t_pc' = "while"
    /\ UNCHANGED <<botVarsAll, text, app, first, cfg, arg, ret>>

\* the body of the while loop
LoopRound ==
    /\ t_pc = "while"
    /\ LoopCondition(new_lines, lines)
    /\ rounds < MaxRounds
    /\ lines' = new_lines
    /\ new_lines' = Round(new_lines, cfg.fixer)
    /\ rounds' = rounds + 1
    /\ UNCHANGED <<botVarsAll, t_pc, text, app, first, cfg, arg, ret>>

\* the loop is left and fix_text returns ''.join(new_lines)
LoopExit ==
    /\ t_pc = "while"
    /\ ~LoopCondition(new_lines, lines)
    /\ ret' = [method |-> cfg.fixer, text |-> new_lines]
    /\ t_pc' = "returned"
    /\ UNCHANGED <<botVarsAll, text, lines, new_lines, rounds, app, first,
                   cfg, arg>>

\* the fixer is called again, with the text it returned
Reapply ==
    /\ t_pc = "returned"
    /\ app = 1
    /\ first' = ret.text
    /\ text' = [lines |-> ret.text, ends_nl |-> text.ends_nl]
    /\ app' = 2
    /\ lines' = << >> /\ new_lines' = << >>
    /\ rounds' = 0
    /\ t_pc' = "fix_text"
    /\ UNCHANGED <<botVarsAll, cfg, arg, ret>>

DriverNext ==
    \/ Call(Texts)
    \/ FirstRound
    \/ LoopRound
    \/ LoopExit
    \/ Reapply

DriverSpec == DriverInit /\ [][DriverNext]_vars

LiveNext ==
    \/ Call(LiveTexts)
    \/ FirstRound
    \/ LoopRound
    \/ LoopExit
    \/ Reapply

\* the interpreter runs every statement it comes to: a call that has begun
\* goes on as long as it has a next statement
DriverLive == DriverInit /\ [][LiveNext]_vars /\ WF_vars(LiveNext)
\* ================================================= fixes.py: the fixers
\* one_count(a, b): the '#' of b after the longest common prefix of a and b
one_count(a, b) ==
    LET j == Minimum({k \in 1..Len(b) : k > Len(a) \/ a[k] # b[k]}
                        \cup {Len(b) + 1})
    IN CountChar(SubSeq(b, j, Len(b)), "#")

\* the configurations of a fixer f: the keyword arguments that __init__
\* accepts (a fixer is given the defaults for the arguments it does not have)
Configs(f) ==
    {c \in [fixer : {f},
            min_closing_lvl : IF f = "StyleFix" THEN {1} ELSE {1, 2},
            max_gap : IF f = "StyleFix" THEN {1} ELSE {1, 2},
            allow_reset : IF f = "StyleFix" THEN {FALSE} ELSE BOOLEAN,
            hide_extra_bullets : IF f = "GapFix" THEN {0} ELSE {0, 1, 2},
            keep_last_asterisk : IF f = "GapFix" THEN {FALSE} ELSE BOOLEAN] :
        ~(c.hide_extra_bullets = 2 /\ c.keep_last_asterisk)}

\* GapFix._removable_gap without the test of min_closing_lvl
GapFix_removable_gap_anylvl(c, opening, closing, glen) ==
    LET len1 == Len(opening)
        len2 == Len(closing)
    IN IF glen < 1 \/ glen > c.max_gap \/ len2 = 0 THEN FALSE
       ELSE IF c.allow_reset /\ len2 = 1 /\ 1 < len1 THEN FALSE
       ELSE IF one_count(<< >>, closing) # one_count(opening, closing) THEN FALSE
       ELSE IF closing[1] = "#" /\ "#" # opening[1] THEN FALSE
       ELSE IF len2 = 1 /\ closing[1] # opening[1] THEN FALSE
       ELSE TRUE

\* GapFix._removable_gap(opening, closing, glen); opening is not empty
GapFix_removable_gap(c, opening, closing, glen) ==
    LET len1 == Len(opening)
        len2 == Len(closing)
    IN IF glen < 1 \/ glen > c.max_gap THEN FALSE
       ELSE IF len2 < c.min_closing_lvl THEN FALSE
       ELSE IF c.allow_reset /\ len2 = 1 /\ 1 < len1 THEN FALSE
       ELSE IF one_count(<< >>, closing) # one_count(opening, closing) THEN FALSE
       ELSE IF closing[1] = "#" /\ "#" # opening[1] THEN FALSE
       ELSE IF len2 = 1 /\ closing[1] # opening[1] THEN FALSE
       ELSE TRUE

\* CombinedFix._removable_gap without the test of the first characters
CombinedFix_removable_gap_anyfirst(c, opening, oldclose, newclose, glen) ==
    LET len1 == Len(opening)
        len2 == Len(newclose)
    IN IF ~(len1 > 0 /\ len2 > 0) THEN FALSE
       ELSE IF glen > c.max_gap THEN FALSE
       ELSE IF len2 < c.min_closing_lvl THEN FALSE
       ELSE IF c.allow_reset /\ len2 = 1 /\ 1 < len1 THEN FALSE
       ELSE IF one_count(<< >>, oldclose) # one_count(opening, newclose) THEN FALSE
       ELSE TRUE

\* CombinedFix._removable_gap(opening, oldclose, newclose, glen), glen >= 1
CombinedFix_removable_gap(c, opening, oldclose, newclose, glen) ==
    LET len1 == Len(opening)
        len2 == Len(newclose)
    IN IF ~(len1 > 0 /\ len2 > 0) THEN FALSE
       ELSE IF opening[1] # newclose[1] THEN FALSE
       ELSE IF glen > c.max_gap THEN FALSE
       ELSE IF len2 < c.min_closing_lvl THEN FALSE
       ELSE IF c.allow_reset /\ len2 = 1 /\ 1 < len1 THEN FALSE
       ELSE IF one_count(<< >>, oldclose) # one_count(opening, newclose) THEN FALSE
       ELSE TRUE

\* any indented line taken to be without content
IsBare_indented(line) == line.indent # << >>

\* re.match(r'([:*#]+) *\n\Z', line): a line of indent characters only
IsBare(line) == line.body = "bare" /\ line.indent # << >>

\* GapFix._remove_indented_and_blank: the while loop from index i down
RECURSIVE RemoveIndentedAndBlank(_, _, _)
RemoveIndentedAndBlank(ls, i, score) ==
    IF i <= 1 THEN [lines |-> NonEmpty(ls), score |-> score]
    ELSE LET lvl == indent_lvl(ls[i])
             \* where the inner for loop breaks; 0 when it runs to its end
             b == Maximum({k \in 1..(i - 1) :
                             ~IsBare(ls[k]) \/ indent_lvl(ls[k]) >= lvl}
                            \cup {0})
         IN IF lvl = 0 THEN RemoveIndentedAndBlank(ls, i - 1, score)
            ELSE RemoveIndentedAndBlank(
                    [k \in 1..Len(ls) |->
                        IF b < k /\ k < i THEN EMPTY ELSE ls[k]],
                    b, score + (i - 1 - b))

\* GapFix.__call__: the while loop from index i on
RECURSIVE GapFixLoop(_, _, _, _)
GapFixLoop(c, ls, i, score) ==
    IF i > Len(ls) THEN [lines |-> NonEmpty(ls), score |-> score]
    ELSE IF indent_lvl(ls[i]) = 0 THEN GapFixLoop(c, ls, i + 1, score)
    ELSE LET j == NextNonBlank(ls, i)
         IN IF j > Len(ls) THEN [lines |-> NonEmpty(ls), score |-> score]
            ELSE IF GapFix_removable_gap(c, indent_text(ls[i]),
                                         indent_text(ls[j]), j - i - 1)
                 THEN GapFixLoop(c, [k \in 1..Len(ls) |->
                                        IF i < k /\ k < j THEN EMPTY ELSE ls[k]],
                                 j, score + (j - i - 1))
                 ELSE GapFixLoop(c, ls, j, score)

\* GapFix.__call__(text), the text given as its line_partition
GapFix_call(c, ls) ==
    LET r == RemoveIndentedAndBlank(ls, Len(ls), 0)
    IN GapFixLoop(c, r.lines, 1, r.score)

\* indent2.rfind('*')
LastAsterisk(ind) == Maximum({k - 1 : k \in {n \in DOMAIN ind : ind[n] = "*"}}
                                \cup {-1})

\* StyleFix._match_indent: the while loop
RECURSIVE MatchWalk(_, _, _, _, _, _, _)
MatchWalk(c, prev_indent, indent2, p1, p2, new_indent, steps) ==
    LET lvl == Len(indent2)
        minlvl == IF Len(prev_indent) < lvl THEN Len(prev_indent) ELSE lvl
        last_asterisk == LastAsterisk(indent2)
    IN IF ~(p1 < minlvl /\ p2 < lvl)
       THEN [new_indent |-> new_indent, p2 |-> p2, steps |-> steps]
       ELSE LET c1 == prev_indent[p1 + 1]
                c2 == indent2[p2 + 1]
                kept == c.keep_last_asterisk /\ p2 = last_asterisk
                absorb == /\ ~kept
                          /\ c2 # "#"
                          /\ c1 = "#"
                          /\ p2 < lvl - 2
                          /\ indent2[p2 + 2] # "#"
                          /\ ~(c.keep_last_asterisk /\ p2 + 1 = last_asterisk)
                written == IF kept THEN "*"
                           ELSE IF c2 = "#" THEN c2
                           ELSE IF c1 = "#" THEN (IF absorb THEN "#" ELSE c2)
                           ELSE c1
                next_p2 == IF absorb THEN p2 + 2 ELSE p2 + 1
                out == Append(new_indent, written)
                seen == Append(steps, [c1 |-> c1, c2 |-> c2,
                                       written |-> written,
                                       absorbed |-> absorb])
            IN IF written # c1
               THEN [new_indent |-> out, p2 |-> next_p2, steps |-> seen]
               ELSE MatchWalk(c, prev_indent, indent2, p1 + 1, next_p2, out, seen)

\* a rest that goes on after the characters written, not after those read
MatchRest_written(c, indent2, w) ==
    LET last_asterisk == LastAsterisk(indent2)
        from == Len(w.new_indent)
        hidden(j) == IF c.hide_extra_bullets = 1 /\ j - 1 = last_asterisk THEN "*"
                     ELSE IF indent2[j] = "*" THEN ":"
                     ELSE indent2[j]
    IN w.new_indent \o
            [k \in 1..(Len(indent2) - from) |->
                IF c.hide_extra_bullets = 0 THEN indent2[from + k]
                ELSE hidden(from + k)]

\* StyleFix._match_indent: what follows the while loop, but for the last
\* statement; w is what the loop has left
MatchRest(c, indent2, w) ==
    LET last_asterisk == LastAsterisk(indent2)
        hidden(j) == IF c.hide_extra_bullets = 1 /\ j - 1 = last_asterisk THEN "*"
                     ELSE IF indent2[j] = "*" THEN ":"
                     ELSE indent2[j]
    IN w.new_indent \o
            [k \in 1..(Len(indent2) - w.p2) |->
                IF c.hide_extra_bullets = 0 THEN indent2[w.p2 + k]
                ELSE hidden(w.p2 + k)]

\* StyleFix._match_indent without its last statement
StyleFix_match_indent_unkept(c, prev_indent, indent2) ==
    MatchRest(c, indent2, MatchWalk(c, prev_indent, indent2, 0, 0, << >>, << >>))

\* StyleFix._match_indent(prev_indent, indent2)
StyleFix_match_indent(c, prev_indent, indent2) ==
    LET w == MatchWalk(c, prev_indent, indent2, 0, 0, << >>, << >>)
        new_indent == MatchRest(c, indent2, w)
    IN \* new_indent[:-1] + indent2[-1:]
       SubSeq(new_indent, 1, Len(new_indent) - 1)
            \o (IF indent2 = << >> THEN << >> ELSE <<indent2[Len(indent2)]>>)

\* StyleFix.__call__: the for loop from line i on (begins_with_table
\* returns the empty set)
RECURSIVE StyleFixLoop(_, _, _, _, _, _)
StyleFixLoop(c, ls, i, prev_indent, new, score) ==
    IF i > Len(ls) THEN [lines |-> new, score |-> score]
    ELSE LET line == ls[i]
             old_indent == indent_text(line)
             new_indent == StyleFix_match_indent(c, prev_indent, old_indent)
         IN IF Len(old_indent) = 0
            THEN StyleFixLoop(c, ls, i + 1, << >>, Append(new, line), score)
            ELSE StyleFixLoop(c, ls, i + 1,
                    IF has_linebreaking_newline(line) THEN << >> ELSE new_indent,
                    Append(new, [line EXCEPT !.indent = new_indent]),
                    score + (IF new_indent # old_indent THEN 1 ELSE 0))

\* StyleFix.__call__(text), the text given as its line_partition
StyleFix_call(c, ls) == StyleFixLoop(c, ls, 1, << >>, << >>, 0)

\* ------------------------------------------ textfixer.py: TextFixer
\* TextFixer._fix_levels on self._lines
TextFixer_fix_levels(ls) == fix_extra_indents(ls, "_fix_levels")

\* the score of TextFixer._fix_levels from index i of the outer loop on:
\* diff - 1 for every line that the inner loop cuts
RECURSIVE FixLevelsScore(_, _)
FixLevelsScore(ls, i) ==
    IF i >= Len(ls) THEN 0
    ELSE LET x == indent_lvl(ls[i])
             y == indent_lvl(ls[i + 1])
             cut == CutRun(ls, i + 1, x, y, y - x, "_fix_levels")
         IN IF y - x <= 1 \/ visual_lvl(ls[i + 1]) - visual_lvl(ls[i]) <= 1
            THEN FixLevelsScore(ls, i + 1)
            ELSE (y - x - 1) * Cardinality({k \in 1..Len(ls) : cut[k] # ls[k]})
                    + FixLevelsScore(cut, i + 1)

\* ------------------------------------------ fixes.py: line_partition
\* A text is a sequence of characters, of which only '\n' matters here;
\* bad_indices holds the offsets (from 0) of the protected newlines.
Chars == {"\n", "x"}

\* ''.join(lines)
RECURSIVE Join(_)
Join(ls) == IF ls = << >> THEN << >> ELSE Head(ls) \o Join(Tail(ls))

\* line_partition: the for loop over find_all(text, '\n') from offset i on
RECURSIVE PartitionLoop(_, _, _, _, _)
PartitionLoop(txt, bad_indices, i, prev, ls) ==
    IF i >= Len(txt) THEN [prev |-> prev, lines |-> ls]
    ELSE IF txt[i + 1] = "\n" /\ i \notin bad_indices
         THEN PartitionLoop(txt, bad_indices, i + 1, i + 1,
                            Append(ls, SubSeq(txt, prev + 1, i + 1)))
         ELSE PartitionLoop(txt, bad_indices, i + 1, prev, ls)

\* line_partition that drops an empty final segment
line_partition_dropping(txt, bad_indices) ==
    LET r == PartitionLoop(txt, bad_indices, 0, 0, << >>)
    IN IF r.prev = Len(txt) THEN r.lines
       ELSE Append(r.lines, SubSeq(txt, r.prev + 1, Len(txt)))

\* line_partition(text), with the bad_indices it has collected
line_partition(txt, bad_indices) ==
    LET r == PartitionLoop(txt, bad_indices, 0, 0, << >>)
    IN Append(r.lines, SubSeq(txt, r.prev + 1, Len(txt)))

\* ------------------------------------------ one call of one fixer
\* the texts the fixers are called with: the texts of LiveTexts, and every
\* text of less than MaxLines lines, lines of indent characters only
\* included; with and without a final newline
PassTexts ==
    LET kinds == ({Line(m, b) : m \in Markers, b \in {"text", "bare"}}
                    \ {Line(<< >>, "bare")}) \cup {NL}
    IN [lines : StairDocs(MaxLines) \cup [1..(MaxLines - 1) -> kinds],
        ends_nl : BOOLEAN]

\* the call returns; what it leaves unchanged
Returned ==
    /\ t_pc' = "returned"
    /\ UNCHANGED <<botVarsAll, lines, new_lines, rounds, app, first>>

\* GapFix(...)._removable_gap(opening, closing, glen)
GapCheck ==
    /\ t_pc = "call"
    /\ \E c \in Configs("GapFix"), opening \in Markers \ {<< >>},
          closing \in Markers, glen \in 0..MaxLines :
          /\ cfg' = c
          /\ arg' = [method |-> "_removable_gap", opening |-> opening,
                     closing |-> closing, newclose |-> closing, glen |-> glen]
          /\ ret' = [method |-> "_removable_gap",
                     value |-> GapFix_removable_gap(c, opening, closing, glen)]
    /\ UNCHANGED text
    /\ Returned

\* CombinedFix(...)._removable_gap(prev_indent, txt_j, new_indent, glen), as
\* __call__ calls it: new_indent = self._match_indent(prev_indent, txt_j)
CombinedGapCheck ==
    /\ t_pc = "call"
    /\ \E c \in Configs("CombinedFix"), opening \in Markers,
          closing \in Markers, glen \in 1..MaxLines :
          LET newclose == StyleFix_match_indent(c, opening, closing)
          IN /\ cfg' = c
             /\ arg' = [method |-> "_removable_gap", opening |-> opening,
                        closing |-> closing, newclose |-> newclose,
                        glen |-> glen]
             /\ ret' = [method |-> "_removable_gap",
                        value |-> CombinedFix_removable_gap(
                                    c, opening, closing, newclose, glen)]
    /\ UNCHANGED text
    /\ Returned

\* GapFix(...)(text)
GapFixCall ==
    /\ t_pc = "call"
    /\ \E c \in Configs("GapFix"), tx \in PassTexts :
          /\ cfg' = c
          /\ text' = tx
          /\ arg' = [method |-> "__call__"]
          /\ ret' = [method |-> "__call__"] @@
                        GapFix_call(c, Partition(tx.lines, tx.ends_nl))
    /\ Returned

\* StyleFix(...)._match_indent(prev_indent, indent2)
MatchIndent ==
    /\ t_pc = "call"
    /\ \E c \in Configs("StyleFix"), prev_indent \in Markers,
          indent2 \in Markers :
          /\ cfg' = c
          /\ arg' = [method |-> "_match_indent", prev_indent |-> prev_indent,
                     indent2 |-> indent2]
          /\ ret' = [method |-> "_match_indent",
                     new_indent |-> StyleFix_match_indent(c, prev_indent, indent2),
                     steps |-> MatchWalk(c, prev_indent, indent2, 0, 0,
                                         << >>, << >>).steps]
    /\ UNCHANGED text
    /\ Returned

\* StyleFix(...)(text)
StyleFixCall ==
    /\ t_pc = "call"
    /\ \E c \in Configs("StyleFix"), tx \in PassTexts :
          /\ cfg' = c
          /\ text' = tx
          /\ arg' = [method |-> "__call__"]
          /\ ret' = [method |-> "__call__"] @@
                        StyleFix_call(c, Partition(tx.lines, tx.ends_nl))
    /\ Returned

\* TextFixer._fix_levels() with self._lines the lines of a text
FixLevels ==
    /\ t_pc = "call"
    /\ \E tx \in PassTexts :
          /\ text' = tx
          /\ ret' = [method |-> "_fix_levels",
                     lines |-> TextFixer_fix_levels(
                                    Partition(tx.lines, tx.ends_nl)),
                     score |-> FixLevelsScore(
                                    <<NL>> \o Partition(tx.lines, tx.ends_nl),
                                    1)]
    /\ cfg' = [fixer |-> "TextFixer"]
    /\ arg' = [method |-> "_fix_levels"]
    /\ Returned

\* bulleted_or_unbulleted(lines, level): the loop is left at the first line
\* of a lower level and at the first line of this level that ends in '#';
\* the lines of this level before that are counted by their last character
bulleted_or_unbulleted(ls, level) ==
    LET last(k) == ls[k].indent[Len(ls[k].indent)]
        stop == Minimum({k \in 1..Len(ls) :
                            \/ indent_lvl(ls[k]) < level
                            \/ indent_lvl(ls[k]) = level /\ last(k) = "#"}
                          \cup {Len(ls) + 1})
        counted == {k \in 1..(stop - 1) : indent_lvl(ls[k]) = level}
        bulleted == Cardinality({k \in counted : last(k) = "*"})
        unbulleted == Cardinality({k \in counted : last(k) = ":"})
    IN [bulleted |-> bulleted, unbulleted |-> unbulleted,
        value |-> IF bulleted > unbulleted THEN "*"
                  ELSE IF bulleted < unbulleted THEN ":"
                  ELSE last(1)]

\* GapFix._remove_indented_and_blank(line_partition(text)), for the texts of
\* up to MaxLines lines that are blank, or indented with colons up to
\* MaxDepth deep and either empty after the indent or not
RemoveIndentedAndBlankCall ==
    /\ t_pc = "call"
    /\ \E n \in 1..MaxLines, e \in BOOLEAN :
         \E d \in [1..n -> ({Line(m, b) : m \in {c \in Markers :
                                            \A k \in DOMAIN c : c[k] = ":"},
                                          b \in {"text", "bare"}}
                             \ {Line(<< >>, "bare")}) \cup {NL}] :
          /\ text' = [lines |-> d, ends_nl |-> e]
          /\ ret' = [method |-> "_remove_indented_and_blank"] @@
                        RemoveIndentedAndBlank(Partition(d, e),
                                               Len(Partition(d, e)), 0)
    /\ cfg' = [fixer |-> "GapFix"]
    /\ arg' = [method |-> "_remove_indented_and_blank"]
    /\ Returned

\* bulleted_or_unbulleted(self._lines[i:], lvl) as TextFixer._fix_styles
\* calls it: lvl > 0 is the level of the first line, which does not end in '#'
BulletedOrUnbulleted ==
    /\ t_pc = "call"
    /\ \E tx \in PassTexts :
          LET ls == Partition(tx.lines, tx.ends_nl)
              lvl == indent_lvl(ls[1])
          IN /\ lvl > 0
             /\ ls[1].indent[lvl] # "#"
             /\ text' = tx
             /\ arg' = [method |-> "bulleted_or_unbulleted", level |-> lvl]
             /\ ret' = [method |-> "bulleted_or_unbulleted"] @@
                            bulleted_or_unbulleted(ls, lvl)
    /\ cfg' = [fixer |-> "TextFixer"]
    /\ Returned

\* TextFixer._fix_styles: the lockstep walk of indent_dict[minlvl] and the
\* indent of a line of level lvl >= minlvl
FixStylesWalk ==
    /\ t_pc = "call"
    /\ \E mem \in Markers, ind \in Markers \ {<< >>} :
          /\ Len(mem) <= Len(ind)
          /\ arg' = [method |-> "_fix_styles", prev_indent |-> mem,
                     indent2 |-> ind]
          /\ ret' = [method |-> "_fix_styles",
                     new_indent |-> StyleIndent(mem, ind),
                     steps |-> StyleWalk(mem, ind, 0, 0, << >>, << >>).steps]
    /\ cfg' = [fixer |-> "TextFixer"]
    /\ UNCHANGED text
    /\ Returned

\* line_partition(text)
LinePartition ==
    /\ t_pc = "call"
    /\ \E n \in 0..MaxLen :
         \E txt \in [1..n -> Chars], bad_indices \in SUBSET (0..(n - 1)) :
          /\ arg' = [method |-> "line_partition", text |-> txt,
                     bad_indices |-> bad_indices]
          /\ ret' = [method |-> "line_partition",
                     lines |-> line_partition(txt, bad_indices)]
    /\ cfg' = [fixer |-> "fixes"]
    /\ UNCHANGED text
    /\ Returned

FixNext ==
    \/ GapCheck
    \/ CombinedGapCheck
    \/ RemoveIndentedAndBlankCall
    \/ GapFixCall
    \/ MatchIndent
    \/ StyleFixCall
    \/ FixLevels
    \/ BulletedOrUnbulleted
    \/ FixStylesWalk
    \/ LinePartition

FixSpec == DriverInit /\ [][FixNext]_vars
\* END-TEXT

\* ==================================================================== claims

\* C1: a page yielded by pop_up_to(cutoff) is not within delay of now: the
\* edit time remembered in its entry and the edit time of the forced re-fetch
\* are both <= cutoff (= current_time - delay <= now - delay), and the page
\* has left the queue (index and heap) when it is yielded.
C1_YieldedOldEnough ==
    pc = "fix" =>
        /\ prio <= cutoff
        /\ page.editTime <= cutoff
        /\ page.editTime <= now - Delay
        /\ page.title \notin DOMAIN q.entry_finder
        /\ \A e \in q.pq : e.page # page.title

C1_Witness ==
    /\ pc = "fix"
    /\ page.title \in Titles
    /\ \E e \in LiveEntries(q) : e.prio > cutoff

\* C2 as stated: a page is yielded only when its re-fetched edit time is the
\* one remembered in its entry.
C2_YieldedOnlyUnchanged == pc = "fix" => page.editTime = prio

\* C2 amended: the re-fetched edit time is compared with the cutoff.  A page
\* edited after the cutoff is not yielded by this call of pop_up_to; it is
\* re-inserted with the new edit time as its priority.
C2_ReinsertedAfterCutoff ==
    /\ \A t \in reinserted :
          /\ t \in DOMAIN q.entry_finder
          /\ LivePrio(q, t) > cutoff
          /\ \A i \in DOMAIN yielded : yielded[i].page # t
    /\ (pc = "drain" /\ page.title \in reinserted) =>
          /\ prio <= cutoff
          /\ LivePrio(q, page.title) = page.editTime
          /\ page.editTime = editTime[page.title]

C2_Witness ==
    /\ pc = "drain"
    /\ page.title \in reinserted
    /\ Len(yielded) > 0

\* C3: coalescing.  Every queued title has exactly one live entry, whose
\* priority is the edit time of the latest add_page for that title, and
\* len(queue) counts the queued titles; adding a queued title again with a
\* later edit time leaves one entry with the later time.
C3_Coalescing ==
    /\ q.len = Cardinality(DOMAIN q.entry_finder)
    /\ \A t \in Titles :
          IF t \in DOMAIN q.entry_finder
          THEN /\ Cardinality({e \in q.pq : e.page = t}) = 1
               /\ \A e \in q.pq : e.page = t => e.prio = added[t]
          ELSE \A e \in q.pq : e.page # t
    /\ last_add.title # "" =>
          \A e \in q.pq : e.page = last_add.title => e.prio = last_add.new

C3_Witness ==
    /\ last_add.title # ""
    /\ last_add.old < last_add.new
    /\ q.len = 1
    /\ \E e \in q.pq : e.page = REMOVED /\ e.prio = last_add.old

C5_NotPausedAtYield == pc = "fix" => ~PAUSED

C5_Witness ==
    /\ pc = "fix"
    /\ current_time > 0
    /\ status_page = "active"
    /\ Len(yielded) = 1

\* C6 as stated: when check_pause_or_resume returns, the status published
\* last is 'paused' exactly when the flag is set and 'active' exactly when
\* it is clear.
C6_StatusFollowsFlag ==
    pc = "checked" => status_page = (IF PAUSED THEN "paused" ELSE "active")

\* C7: the flag goes from clear to set only on a revision whose comment ends
\* with PAUSE by a maintainer, a sysop or an autoconfirmed user; from set to
\* clear (while the process lives) only on a revision whose comment ends with
\* RESUME by a maintainer or a sysop; a revision by anyone else leaves it.
C7_PermissionGated ==
    [][ /\ (~PAUSED /\ PAUSED') =>
              /\ pc = "check"
              /\ EndsWith(rev'.cmt, "PAUSE")
              /\ \/ rev'.user \in MAINTAINERS
                 \/ "sysop" \in rev'.groups
                 \/ "autoconfirmed" \in rev'.groups
        /\ (PAUSED /\ ~PAUSED' /\ pc' # "done") =>
              /\ pc = "check"
              /\ EndsWith(rev'.cmt, "RESUME")
              /\ rev'.user \in MAINTAINERS \/ "sysop" \in rev'.groups
        /\ ( /\ pc = "check" /\ revs_seen' = revs_seen + 1
             /\ rev'.user \notin MAINTAINERS
             /\ rev'.groups = {} ) => PAUSED' = PAUSED
      ]_vars

C7_Witness ==
    /\ pc = "check"
    /\ PAUSED
    /\ last_log = "Paused"
    /\ rev.user \notin MAINTAINERS
    /\ rev.groups = {"autoconfirmed"}

\* would check_pause_or_resume honour a PAUSE / a RESUME of the author of r
HonoursPause(r) ==
    RevBody(FALSE, FALSE, [r EXCEPT !.cmt = <<"PAUSE">>]).paused

HonoursResume(r) ==
    ~RevBody(TRUE, TRUE, [r EXCEPT !.cmt = <<"please", "RESUME">>]).paused

\* C8 as stated: an author whose PAUSE was honoured is an author whose
\* RESUME is honoured.
C8_PauseWithinResume == last_log = "Paused" => HonoursResume(rev)

\* C8 amended: the tiers are nested the other way round.  An author whose
\* RESUME was honoured is an author whose PAUSE is honoured.
C8_ResumeWithinPause == last_log = "Resumed" => HonoursPause(rev)

C8_Witness ==
    /\ last_log = "Resumed"
    /\ ~PAUSED
    /\ "sysop" \in rev.groups
    /\ "autoconfirmed" \notin rev.groups

\* C9: fail-stop.  An unknown error of page.save is re-raised by fix_page
\* and ends the run; once the run has ended no further page is processed;
\* however the run ends, the status published last is 'inactive'.
C9_FailStop ==
    /\ [](pc = "done" => status_page = "inactive")
    /\ [](save_result.err \in {"PageSaveRelatedError", "Exception"} =>
             pc = "done" /\ exc = save_result.err)
    /\ [][pc = "done" =>
             /\ pc' = "done"
             /\ count' = count
             /\ status_page' = status_page
             /\ editTime' = editTime]_vars

C9_Witness ==
    /\ pc = "done"
    /\ exc = "Exception"
    /\ save_result.err = "Exception"
    /\ count = 1
    /\ status_page = "inactive"

\* C10 as stated: after EditConflict, Locked, AbuseFilterRejected,
\* SpamBlocked or OtherRejected the run goes on with the next page.
C10_AllFiveDropped ==
    save_result.err \in DroppedErrors \cup {"OtherPageSaveError"} =>
        pc = "drain" /\ exc = ""

\* C10 amended: EditConflict, Locked, AbuseFilterRejected, SpamBlocked and
\* an OtherRejected whose reason starts with 'Editing restricted by
\* {{bots}}' are dropped: fix_page returns without raising, the page is
\* neither saved again nor put back in the queue, the edit count stays and
\* the generator is resumed.  Any other OtherRejected is re-raised and ends
\* the run.
C10_DroppedOrRaised ==
    [][ /\ ( /\ pc = "fix"
             /\ \/ save_result'.err \in DroppedErrors
                \/ /\ save_result'.err = "OtherPageSaveError"
                   /\ save_result'.reason = "Editing restricted by {{bots}}" )
           => /\ pc' = "drain"
              /\ exc' = ""
              /\ count' = count
              /\ q' = q
              /\ editTime' = editTime
              /\ status_page' = status_page
        /\ ( /\ pc = "fix"
             /\ save_result'.err = "OtherPageSaveError"
             /\ save_result'.reason # "Editing restricted by {{bots}}" )
           => /\ pc' = "done"
              /\ exc' = "OtherPageSaveError"
              /\ count' = count
              /\ status_page' = "inactive"
      ]_vars

C10_Witness ==
    /\ pc = "drain"
    /\ save_result.err = "OtherPageSaveError"
    /\ count = 1
    /\ exc = ""

\* C11: fix_text is idempotent. When fix_text is applied to the text it
\* returned, it returns that text unchanged, and each of the three passes
\* leaves every line of that text as it is.
C11_Idempotent ==
    (t_pc = "returned" /\ app = 2 /\ cfg.fixer = "fix_text") =>
        LET ls == NonEmpty(Partition(text.lines, text.ends_nl))
        IN /\ text.lines = first
           /\ ret.text = first
           /\ fix_gaps(Partition(text.lines, text.ends_nl), "fix_text") = ls
           /\ fix_extra_indents(ls, "fix_text") = ls
           /\ fix_indent_style(ls, "fix_text") = ls

\* the second application has returned, after a first application that needed
\* more than one round to change the text
C11_Witness ==
    /\ t_pc = "returned" /\ app = 2
    /\ cfg.fixer = "fix_text"
    /\ ret.text = first
    /\ first # arg.text.lines
    /\ Round(Partition(arg.text.lines, arg.text.ends_nl), "fix_text") # first

\* C12: fix_text terminates on every text: the rounds of fix_gaps, then
\* fix_extra_indents, then fix_indent_style come to a round that changes no
\* line, the loop is left exactly when a round has changed no line, and the
\* passes never undo one another forever.
C12_Terminates ==
    /\ <>(t_pc = "returned" /\ app = 2)
    /\ [][LoopExit => /\ new_lines = lines
                      /\ Round(lines, cfg.fixer) = lines]_vars
    /\ [][LoopRound => new_lines # lines]_vars

\* a call has returned after a loop of three rounds or more
C12_Witness ==
    /\ t_pc = "returned"
    /\ rounds >= 3
    /\ new_lines = lines
    /\ ret.text # arg.text.lines

\* C13: for a text whose deepest indent is k, the lines that k+1 rounds
\* produce are a fixed point of the round, so that the loop is left after
\* k+2 rounds at the latest (the last one finds nothing to change).
C13_RoundBound ==
    LET k == MaxIndent(text.lines)
    IN cfg.fixer = "fix_text" =>
        /\ rounds <= k + 2
        /\ (t_pc = "while" /\ rounds >= k + 1) =>
                Round(new_lines, "fix_text") = new_lines

\* the second round of a text of depth 3 has still changed its lines
C13_Witness ==
    /\ t_pc = "while"
    /\ cfg.fixer = "fix_text"
    /\ MaxIndent(text.lines) = 3
    /\ rounds = 2
    /\ new_lines # lines

\* C14: a StyleFix pass leaves, for every pair of adjacent lines, the number
\* of '#' after the longest common prefix of the two markers as it was.
C14_NumberingPreserved ==
    (t_pc = "returned" /\ arg.method = "__call__" /\ cfg.fixer = "StyleFix") =>
        LET old == Partition(text.lines, text.ends_nl)
        IN /\ Len(ret.lines) = Len(old)
           /\ \A k \in 2..Len(old) :
                 one_count(ret.lines[k - 1].indent, ret.lines[k].indent)
                    = one_count(old[k - 1].indent, old[k].indent)

\* C15: GapFix removes the blank lines between an indented opening line and
\* the next non-blank closing line only if the run has between 1 and max_gap
\* lines, the closing level is at least min_closing_lvl, and not (allow_reset
\* and opening level > 1 and closing level = 1). With min_closing_lvl = 1
\* and max_gap = 1, ": A\n\n:: B\n" becomes ": A\n:: B\n" with score 1; with
\* min_closing_lvl = 2 a blank line between two lines of level 1 is kept.
C15_GapRemoval ==
    LET A == Line(<<":">>, "text")
        B == Line(<<":", ":">>, "text")
        old == Partition(text.lines, text.ends_nl)
        n == Len(text.lines)
        MayRemove(opening, closing, glen) ==
            /\ 1 <= glen /\ glen <= cfg.max_gap
            /\ Len(closing) >= cfg.min_closing_lvl
            /\ ~(cfg.allow_reset /\ Len(opening) > 1 /\ Len(closing) = 1)
    IN (t_pc = "returned" /\ cfg.fixer = "GapFix") =>
        /\ (arg.method = "_removable_gap" /\ ret.value) =>
                MayRemove(arg.opening, arg.closing, arg.glen)
        /\ ( /\ arg.method = "__call__"
             /\ n >= 3
             /\ text.lines[1].indent # << >> /\ text.lines[1].body = "text"
             /\ \A k \in 2..(n - 1) : text.lines[k] = NL
             /\ text.lines[n].body = "text"
             /\ ret.score > 0 ) =>
                /\ MayRemove(text.lines[1].indent, text.lines[n].indent, n - 2)
                /\ ret.lines = <<text.lines[1], text.lines[n]>>
                /\ ret.score = n - 2
        /\ ( /\ arg.method = "__call__"
             /\ cfg.min_closing_lvl = 1 /\ cfg.max_gap = 1
             /\ text = [lines |-> <<A, NL, B>>, ends_nl |-> TRUE] ) =>
                ret.lines = <<A, B>> /\ ret.score = 1
        /\ ( /\ arg.method = "__call__"
             /\ cfg.min_closing_lvl = 2
             /\ text.lines = <<A, NL, A>> ) =>
                ret.lines = NonEmpty(old) /\ ret.score = 0

\* GapFix with min_closing_lvl = 1 and max_gap = 1 has closed the gap of
\* ": A\n\n:: B\n"
C15_Witness ==
    /\ t_pc = "returned"
    /\ cfg.fixer = "GapFix" /\ arg.method = "__call__"
    /\ cfg.min_closing_lvl = 1 /\ cfg.max_gap = 1
    /\ text = [lines |-> <<Line(<<":">>, "text"), NL,
                           Line(<<":", ":">>, "text")>>, ends_nl |-> TRUE]
    /\ ret.score = 1

\* C16: for every previous marker and every marker of a line that is not
\* empty, and for every configuration of hide_extra_bullets and
\* keep_last_asterisk, the marker that StyleFix._match_indent returns is not
\* empty and ends with the last character of the line's marker.
C16_FinalCharKept ==
    (t_pc = "returned" /\ arg.method = "_match_indent"
        /\ arg.indent2 # << >>) =>
        /\ Len(ret.new_indent) >= 1
        /\ ret.new_indent[Len(ret.new_indent)]
                = arg.indent2[Len(arg.indent2)]

\* the walk and the handling of the extra bullets alone would have written
\* another last character than the line's
C16_Witness ==
    /\ t_pc = "returned"
    /\ arg.method = "_match_indent"
    /\ arg.indent2 # << >>
    /\ ret.new_indent # StyleFix_match_indent_unkept(cfg, arg.prev_indent,
                                                     arg.indent2)
    /\ ret.new_indent # arg.indent2

\* C17: for every text and every set of protected newline offsets, the lines
\* that line_partition returns concatenate to the text; a line ends after a
\* newline exactly when the offset of the newline is not protected; the
\* segment after the last accepted newline is the last line, also when it
\* is empty, so that there are as many lines as accepted newlines, plus one.
C17_PartitionRoundTrip ==
    (t_pc = "returned" /\ arg.method = "line_partition") =>
        LET txt == arg.text
            ls == ret.lines
            accepted == {i \in 0..(Len(txt) - 1) :
                            txt[i + 1] = "\n" /\ i \notin arg.bad_indices}
            \* the offset at which the k-th line ends
            end(k) == Len(Join(SubSeq(ls, 1, k)))
        IN /\ Join(ls) = txt
           /\ Len(ls) = Cardinality(accepted) + 1
           /\ {end(k) : k \in 1..(Len(ls) - 1)} = {i + 1 : i \in accepted}
           /\ \A k \in 1..(Len(ls) - 1) : ls[k] # << >>
           /\ ls[Len(ls)] = SubSeq(txt, Maximum({i + 1 : i \in accepted}
                                                  \cup {0}) + 1, Len(txt))

\* a text with a protected newline and an accepted one at its end: the last
\* line is empty
C17_Witness ==
    /\ t_pc = "returned"
    /\ arg.method = "line_partition"
    /\ \E i \in arg.bad_indices : i < Len(arg.text) /\ arg.text[i + 1] = "\n"
    /\ Len(ret.lines) = 2
    /\ ret.lines[2] = << >>

\* C18 (as stated): after TextFixer._fix_levels no line is more than one
\* level deeper, and visually more than one level deeper, than the line
\* before it; "* A\n*** B\n" becomes "* A\n** B\n".
C18_NoJumpLeft ==
    (t_pc = "returned" /\ arg.method = "_fix_levels") =>
        /\ \A k \in 2..Len(ret.lines) :
              ~ /\ indent_lvl(ret.lines[k]) - indent_lvl(ret.lines[k - 1]) > 1
                /\ visual_lvl(ret.lines[k]) - visual_lvl(ret.lines[k - 1]) > 1
        /\ text = [lines |-> <<Line(<<"*">>, "text"),
                               Line(<<"*", "*", "*">>, "text")>>,
                   ends_nl |-> TRUE]
              => NonEmpty(ret.lines) = <<Line(<<"*">>, "text"),
                                         Line(<<"*", "*">>, "text")>>

\* C18 (amended): after TextFixer._fix_levels a line is more than one level
\* deeper, and visually more than one level deeper, than the line before it
\* (of level x) only if it has a '#' among the characters that would be cut
\* (from position x up to its level minus two) and its last character is
\* not '#'; "* A\n*** B\n" becomes "* A\n** B\n".
C18_JumpsCollapsed ==
    (t_pc = "returned" /\ arg.method = "_fix_levels") =>
        /\ \A k \in 2..Len(ret.lines) :
              LET l1 == ret.lines[k - 1]
                  l2 == ret.lines[k]
                  x == indent_lvl(l1)
                  y == indent_lvl(l2)
              IN (y - x > 1 /\ visual_lvl(l2) - visual_lvl(l1) > 1) =>
                    /\ \E p \in (x + 1)..(y - 1) : l2.indent[p] = "#"
                    /\ l2.indent[y] # "#"
        /\ text = [lines |-> <<Line(<<"*">>, "text"),
                               Line(<<"*", "*", "*">>, "text")>>,
                   ends_nl |-> TRUE]
              => NonEmpty(ret.lines) = <<Line(<<"*">>, "text"),
                                         Line(<<"*", "*">>, "text")>>

\* a run of two lines has been cut, each by one character
C18_Witness ==
    /\ t_pc = "returned"
    /\ arg.method = "_fix_levels"
    /\ Len(text.lines) = 3
    /\ indent_lvl(text.lines[2]) - indent_lvl(text.lines[1]) = 2
    /\ indent_lvl(text.lines[3]) = 3
    /\ indent_lvl(ret.lines[2]) = indent_lvl(text.lines[2]) - 1
    /\ indent_lvl(ret.lines[3]) = 2

\* C19 (as stated): _removable_gap of GapFix and of CombinedFix returns True
\* only for an opening and a closing marker that begin with the same
\* character.
C19_SameFirstChar ==
    (t_pc = "returned" /\ arg.method = "_removable_gap" /\ ret.value) =>
        /\ arg.closing # << >>
        /\ arg.opening[1] = arg.closing[1]

\* C19 (amended): GapFix keeps the gap when the closing marker begins with
\* '#' and the opening marker does not, and when the closing marker is one
\* character that is not the first character of the opening marker;
\* CombinedFix keeps the gap when the opening marker and the closing marker
\* as _match_indent rewrites it begin with different characters. GapFix
\* closes the gap of "* A\n\n:: B\n".
C19_FirstCharGuard ==
    LET A == Line(<<"*">>, "text")
        B == Line(<<":", ":">>, "text")
    IN t_pc = "returned" =>
        /\ (arg.method = "_removable_gap" /\ ret.value
                /\ cfg.fixer = "GapFix") =>
              /\ arg.closing # << >>
              /\ ~(arg.closing[1] = "#" /\ arg.opening[1] # "#")
              /\ ~(Len(arg.closing) = 1 /\ arg.closing[1] # arg.opening[1])
        /\ (arg.method = "_removable_gap" /\ ret.value
                /\ cfg.fixer = "CombinedFix") =>
              /\ arg.opening # << >> /\ arg.newclose # << >>
              /\ arg.opening[1] = arg.newclose[1]
        /\ (arg.method = "__call__" /\ cfg.fixer = "GapFix"
                /\ cfg.min_closing_lvl = 1
                /\ text = [lines |-> <<A, NL, B>>, ends_nl |-> TRUE]) =>
              ret.lines = <<A, B>> /\ ret.score = 1

\* CombinedFix closes a gap between markers that begin with different
\* characters, the closing one being rewritten to begin as the opening one
C19_Witness ==
    /\ t_pc = "returned"
    /\ arg.method = "_removable_gap"
    /\ cfg.fixer = "CombinedFix"
    /\ ret.value
    /\ arg.opening[1] # arg.closing[1]
    /\ arg.opening[1] = arg.newclose[1]

\* C20 (as stated): at every position of the lockstep walk (of
\* StyleFix._match_indent and of TextFixer._fix_styles) where the remembered
\* character or the character of the line is '#', '#' is written.
C20_HashAlwaysWins ==
    (t_pc = "returned" /\ arg.method \in {"_match_indent", "_fix_styles"}) =>
        \A k \in DOMAIN ret.steps :
            LET s == ret.steps[k]
            IN (s.c1 = "#" \/ s.c2 = "#") => s.written = "#"

\* C20 (amended): at every position of the lockstep walk where the character
\* of the line is '#', '#' is written; where only the remembered character
\* is '#', '#' is written when it takes the place of two characters of the
\* line, and the character of the line itself is written otherwise.
C20_HashWins ==
    (t_pc = "returned" /\ arg.method \in {"_match_indent", "_fix_styles"}) =>
        \A k \in DOMAIN ret.steps :
            LET s == ret.steps[k]
            IN /\ s.c2 = "#" => s.written = "#"
               /\ (s.c1 = "#" /\ s.c2 # "#") =>
                     s.written = (IF s.absorbed THEN "#" ELSE s.c2)

\* a walk of TextFixer._fix_styles in which a remembered '#' has taken the
\* place of '::', and in which a '#' of the line was written over a
\* remembered character that is not '#'
C20_Witness ==
    /\ t_pc = "returned"
    /\ arg.method = "_fix_styles"
    /\ \E k \in DOMAIN ret.steps :
          ret.steps[k].c1 = "#" /\ ret.steps[k].absorbed
    /\ \E k \in DOMAIN ret.steps :
          ret.steps[k].c1 # "#" /\ ret.steps[k].c2 = "#"

\* C21: bulleted_or_unbulleted counts, over the lines of exactly the given
\* level up to the first line of a lower level, those that end in '*' and
\* those that end in ':', and returns the character of the majority, and
\* '*' when the two counts are equal.
C21_MajorityTieStar ==
    (t_pc = "returned" /\ arg.method = "bulleted_or_unbulleted") =>
        LET ls == Partition(text.lines, text.ends_nl)
            lower == {k \in 1..Len(ls) : indent_lvl(ls[k]) < arg.level}
            run == {k \in 1..Len(ls) :
                        /\ indent_lvl(ls[k]) = arg.level
                        /\ \A j \in lower : k < j}
            stars == Cardinality({k \in run : ls[k].indent[arg.level] = "*"})
            colons == Cardinality({k \in run : ls[k].indent[arg.level] = ":"})
        IN ret.value = (IF stars >= colons THEN "*" ELSE ":")

\* C22 (as stated): GapFix._remove_indented_and_blank deletes a line of
\* indent characters only that is followed by a line of a greater level and
\* puts its indent in front of the indent of that line; it keeps such a line
\* when the line that follows is of the same or of a lower level.
C22_Absorbed ==
    (t_pc = "returned" /\ arg.method = "_remove_indented_and_blank"
        /\ Len(text.lines) = 2 /\ text.lines[1].body = "bare"
        /\ text.lines[2].body = "text") =>
        LET b == text.lines[1]
            t == text.lines[2]
        IN ret.lines = (IF indent_lvl(t) > indent_lvl(b)
                        THEN <<Line(b.indent \o t.indent, "text")>>
                        ELSE <<b, t>>)

\* C22 (amended): GapFix._remove_indented_and_blank deletes a line of indent
\* characters only exactly when the next line that it does not delete is of
\* a greater level; the lines that it does not delete are returned as they
\* were, and the score is the number of deleted lines.
C22_BareRemoved ==
    (t_pc = "returned" /\ arg.method = "_remove_indented_and_blank") =>
        LET old == text.lines
            n == Len(old)
            deleted[k \in 1..n] ==
                LET later == {j \in (k + 1)..n : ~deleted[j]}
                IN /\ old[k].body = "bare"
                   /\ later # {}
                   /\ indent_lvl(old[k]) < indent_lvl(old[Minimum(later)])
            kept == {k \in 1..n : ~deleted[k]}
            nth(i) == CHOOSE k \in kept :
                            Cardinality({j \in kept : j <= k}) = i
        IN /\ ret.lines = [i \in 1..Cardinality(kept) |-> old[nth(i)]]
           /\ ret.score = n - Cardinality(kept)

\* two lines of indent characters only are deleted, the first of which is
\* deeper than the second: the line that follows both is deeper than both
C22_Witness ==
    /\ t_pc = "returned"
    /\ arg.method = "_remove_indented_and_blank"
    /\ Len(text.lines) = 3
    /\ text.lines[1].body = "bare" /\ text.lines[2].body = "bare"
    /\ indent_lvl(text.lines[1]) > indent_lvl(text.lines[2])
    /\ ret.lines = <<text.lines[3]>>
    /\ ret.score = 2

\* C23: TextFixer._fix_levels and fix_extra_indents change a line only by
\* cutting characters out of its indent, before the last character of it:
\* the last indent character and what follows the indent are as they were;
\* a changed line follows a changed line, or is more than one level deeper
\* than the line before it (of level x) and keeps its first x characters and
\* its last one; the score of _fix_levels is the number of characters cut.
C23_MiddleOnly ==
    (t_pc = "returned" /\ arg.method = "_fix_levels") =>
        LET old == Partition(text.lines, text.ends_nl)
            n == Len(old)
            Cut(new) ==
                LET removed[k \in 0..n] ==
                        IF k = 0 THEN 0
                        ELSE removed[k - 1] + Len(old[k].indent)
                                            - Len(new[k].indent)
                IN removed[n]
            Frame(new) ==
                /\ Len(new) = n
                /\ \A k \in 1..n :
                     LET o == old[k].indent
                         m == new[k].indent
                     IN /\ new[k].body = old[k].body
                        /\ \E a \in 0..Len(o) : \E b \in a..Len(o) :
                              /\ m = SubSeq(o, 1, a) \o SubSeq(o, b + 1, Len(o))
                              /\ o # << >> => b < Len(o)
                        /\ o # << >> => m # << >> /\ m[Len(m)] = o[Len(o)]
                        /\ new[k] # old[k] =>
                              LET x == IF k = 1 THEN 0
                                       ELSE Len(new[k - 1].indent)
                              IN \/ k > 1 /\ new[k - 1] # old[k - 1]
                                 \/ /\ Len(o) - x > 1
                                    /\ m = SubSeq(o, 1, x) \o <<o[Len(o)]>>
        IN /\ Frame(ret.lines)
           /\ ret.score = Cut(ret.lines)
           /\ Frame(fix_extra_indents(old, "fix_text"))

\* _fix_levels has cut a run of two lines and left the line before the run
\* as it was; two characters are cut in all
C23_Witness ==
    /\ t_pc = "returned"
    /\ arg.method = "_fix_levels"
    /\ Len(text.lines) = 3
    /\ ret.lines[1] = text.lines[1]
    /\ ret.lines[2] # text.lines[2]
    /\ ret.lines[3] # text.lines[3]
    /\ ret.score = 2

C25_GoneRemoved ==
    [][(\E t \in Titles : PopGone(t)) =>
          LET e == Top(q.pq)
          IN /\ e.page \in DOMAIN q.entry_finder
             /\ q'.pq = q.pq \ {e}
             /\ DOMAIN q'.entry_finder = (DOMAIN q.entry_finder) \ {e.page}
             /\ \A x \in DOMAIN q'.entry_finder :
                   q'.entry_finder[x] = q.entry_finder[x]
             /\ q'.len = q.len - 1
             /\ yielded' = yielded
             /\ pc' = "drain"]_vars

\* pop_up_to has dropped a page that is gone and has an entry that is due
\* before it
C25_Witness ==
    /\ pc = "drain"
    /\ page.title \in Titles
    /\ page.title \notin DOMAIN q.entry_finder
    /\ \A i \in DOMAIN yielded : yielded[i].page # page.title
    /\ q.len > 0
    /\ ~NotDue(Top(q.pq).prio, cutoff)

\* C26: an iteration of the loop of continuous_page_gen that finds PAUSED set
\* empties the queue and sets last_load to its cutoff, current_time - delay;
\* the queue is empty for as long as the bot sleeps paused; when the next
\* iteration resumes, its query starts at that cutoff plus one second, and
\* no page it adds was last edited before that.
C26_PausedReset ==
    /\ [][PausedReset =>
            /\ PAUSED
            /\ q'.len = 0 /\ q'.pq = {} /\ DOMAIN q'.entry_finder = {}
            /\ cutoff = current_time - Delay
            /\ last_load' = cutoff]_vars
    /\ []((pc = "sleep" /\ PAUSED) =>
            /\ q.len = 0
            /\ last_load = old_time - Delay)
    /\ []((pc = "check" /\ original_status) =>
            /\ q.len = 0
            /\ last_load = old_time - Delay
            /\ last_load < cutoff)
    /\ [][(CheckReturn /\ original_status /\ ~PAUSED) =>
            /\ pc' = "checked" /\ ~PAUSED'
            /\ q'.len = 0
            /\ last_load' = old_time' - Delay
            /\ last_load' < cutoff']_vars
    /\ [][(LoadAndDrain /\ q.len = 0 /\ last_load = old_time - Delay) =>
            /\ last_load < cutoff
            /\ \E order \in Orders(Changed(last_load + 1, current_time)) :
                  q' = AddFrom(q, Pages(order))
            /\ \A e \in q'.pq : e.prio >= last_load + 1
            /\ last_load' = current_time]_vars

\* the check of the iteration that follows a paused one has resumed the bot
C26_Witness ==
    /\ pc = "check"
    /\ original_status /\ ~PAUSED
    /\ last_log = "Resumed"
    /\ q.len = 0
    /\ last_load = old_time - Delay
    /\ last_load < cutoff

\* C27: whatever methods of the PageQueue have been called, its length is
\* the number of titles in entry_finder and the number of heap entries that
\* are not tombstones; every title of entry_finder is the page of exactly one
\* such entry, the one entry_finder holds for it; no tombstone is yielded or
\* returned, and a tombstone stays one until it leaves the heap.
C27_Bookkeeping ==
    /\ [](/\ q.len = Cardinality(DOMAIN q.entry_finder)
          /\ q.len = Cardinality(LiveEntries(q))
          /\ \A t \in DOMAIN q.entry_finder :
                /\ t \in Titles
                /\ {e.count : e \in {l \in LiveEntries(q) : l.page = t}}
                        = {q.entry_finder[t]}
          /\ \A e \in LiveEntries(q) : e.page \in DOMAIN q.entry_finder
          /\ \A e, o \in q.pq : e.count = o.count => e = o
          /\ \A i \in DOMAIN yielded : yielded[i].page \in Titles)
    /\ [][\A e \in q.pq : e.page = REMOVED =>
            \A o \in q'.pq : o.count = e.count => o = e]_vars
    /\ [][QPopPage => PopPage(q).page \in Titles \cup {"KeyError"}]_vars

\* a page is queued again after its entry was made a tombstone, while
\* pop_up_to has yielded another page
C27_Witness ==
    /\ \E e \in q.pq : e.page = REMOVED
    /\ \E e \in q.pq : e.page # REMOVED
    /\ q.len = 1
    /\ Len(yielded) = 1

\* the heap entries pop_up_to(cutoff) still has to look at, tombstones
\* included
DueEntries == {e \in q.pq : ~NotDue(e.prio, cutoff)}

\* C28 as stated: every call of pop_up_to(cutoff) terminates, and each step
\* of its loop makes the number of heap entries of priority <= cutoff
\* strictly smaller.
C28_EntriesDecrease ==
    /\ (pc \in {"drain", "fix"}) ~> (pc = "sleep")
    /\ [][(pc = "drain" /\ pc' # "sleep") =>
            Cardinality({e \in q'.pq : ~NotDue(e.prio, cutoff')})
                < Cardinality(DueEntries)]_vars

\* C28, amended: every call of pop_up_to(cutoff) terminates whatever the
\* re-fetched edit times are.  A step of its loop that discards a tombstone,
\* drops a page that is gone or yields a page removes one heap entry of
\* priority <= cutoff; a step that queues the page again leaves the old entry
\* in the heap as a tombstone of the same priority, so the number of entries
\* of priority <= cutoff stays the same and the number of those that are not
\* tombstones gets smaller.  The sum of the two numbers strictly decreases.
C28_Terminates ==
    /\ (pc \in {"drain", "fix"}) ~> (pc = "sleep")
    /\ [][(pc = "drain" /\ pc' # "sleep") =>
            LET due == {e \in q'.pq : ~NotDue(e.prio, cutoff')}
                live == {e \in due : e.page # REMOVED}
            IN /\ cutoff' = cutoff
               /\ Cardinality(due) + Cardinality(live)
                    < Cardinality(DueEntries)
                        + Cardinality(DueEntries \cap LiveEntries(q))
               /\ IF q' # q /\ Cardinality(q'.pq) > Cardinality(q.pq)
                  THEN /\ Cardinality(due) = Cardinality(DueEntries)
                       /\ Cardinality(live)
                            < Cardinality(DueEntries \cap LiveEntries(q))
                       /\ \E e \in q'.pq \ q.pq : NotDue(e.prio, cutoff)
                  ELSE Cardinality(due) < Cardinality(DueEntries)]_vars

\* pop_up_to is about to stop after it has queued one page again, discarded
\* the tombstone this left, and yielded another page
C28_Witness ==
    /\ pc = "drain"
    /\ reinserted # {}
    /\ Len(yielded) >= 1
    /\ DueEntries = {}
    /\ q.pq # {}

\* C29: while the bot is not paused, last_load is the end of the last
\* change-feed query: it changes only when continuous_page_gen queries the
\* feed, and then becomes the server time the query ends at.  The first
\* query is made for the window from cutoff - chunk to the server time; each
\* later one queues only pages whose edit time lies from one second after
\* last_load up to the server time read in this iteration, so its window
\* starts where the previous one ended and shares no timestamp with it.
C29_ContiguousWindows ==
    [][LET loaded == {t \in DOMAIN q'.entry_finder :
                        \/ t \notin DOMAIN q.entry_finder
                        \/ q'.entry_finder[t] # q.entry_finder[t]}
       IN /\ pc = "init" =>
                /\ last_load' = now /\ old_time' = now
                /\ \A t \in loaded : /\ (now - Delay) - Chunk <= editTime[t]
                                     /\ editTime[t] <= now
          /\ (pc = "checked" /\ pc' = "drain") =>
                IF last_load < cutoff
                THEN /\ last_load' = current_time
                     /\ last_load' > last_load
                     /\ \A t \in loaded : /\ last_load + 1 <= editTime[t]
                                          /\ editTime[t] <= current_time
                ELSE loaded = {} /\ last_load' = last_load
          /\ (last_load' # last_load /\ pc # "init" /\ pc' # "done") =>
                /\ pc = "checked"
                /\ PAUSED <=> pc' # "drain"
                /\ PAUSED => last_load' = cutoff]_vars

\* the second query of an unpaused run has queued a page that was edited
\* after the first query ended
C29_Witness ==
    /\ pc = "drain"
    /\ ~PAUSED
    /\ revs_seen = 0
    /\ old_time < current_time
    /\ last_load = current_time
    /\ \E t \in DOMAIN q.entry_finder :
          /\ added[t] = editTime[t]
          /\ editTime[t] = old_time + 1
          /\ editTime[t] < current_time

\* C30: for every previous marker and every marker of a line, the marker
\* StyleFix._match_indent returns has the visual level (its length plus the
\* number of its '#') of the line's marker, also when the loop has written
\* one '#' for two characters of the line's marker, and it is never longer
\* than the line's marker.
C30_VisualLevelKept ==
    (t_pc = "returned" /\ arg.method = "_match_indent") =>
        /\ visual_lvl(Line(ret.new_indent, "text"))
                = visual_lvl(Line(arg.indent2, "text"))
        /\ Len(ret.new_indent) <= Len(arg.indent2)
        /\ (\E k \in DOMAIN ret.steps : ret.steps[k].absorbed) =>
                /\ Len(ret.new_indent) = Len(arg.indent2) - 1
                /\ CountChar(ret.new_indent, "#")
                        = CountChar(arg.indent2, "#") + 1

\* two characters of the line's marker, neither a '#', were written as one
\* '#' after a previous marker that begins with '#'
C30_Witness ==
    /\ t_pc = "returned"
    /\ arg.method = "_match_indent"
    /\ \E k \in DOMAIN ret.steps : ret.steps[k].absorbed
    /\ Len(arg.indent2) = MaxDepth
    /\ Len(ret.new_indent) = MaxDepth - 1
    /\ ret.new_indent[1] = "#"
    /\ arg.indent2[1] # "#"
====
